---------------------------- MODULE Spec2Model ----------------------------
(***************************************************************************)
(* A model of the TON wallet client of python_contract/ton_wallet_client:  *)
(* Address parsing and rendering (types.py), TransferMessage and Wallet    *)
(* (wallet.py) and the WalletClient coroutines (client.py) running on one  *)
(* event loop.                                                             *)
(*                                                                         *)
(* Bytes are sequences of numbers 0..255, text is a sequence of one-       *)
(* character strings.  A call's outcome is a record [raised, value]:       *)
(* raised = "none" for a normal return, else the exception class.          *)
(* WalletClient has no transport object: the places where it stands in for *)
(* the ledger (the mock returns of get_balance and get_wallet_state) are   *)
(* counted as the ledger queries of a call, and a broadcast is counted     *)
(* where the code hands a payload on, which it nowhere does.               *)
(***************************************************************************)
EXTENDS Integers, Sequences, FiniteSets, TLC

\* Python's None, and an Optional that is set: an empty or a one-element tuple.
None == <<>>

Some(v) == <<v>>

Return(v) == [raised |-> "none", value |-> v]

Raise(kind) == [raised |-> kind, value |-> None]

Rep(c, n) == [i \in 1..n |-> c]

\* F of the value of x, with x evaluated once.
Bind(x, F(_)) == CHOOSE r \in {F(v) : v \in {x}} : TRUE

(***************************************************************************)
(* Text and byte primitives of the Python runtime used by types.py.       *)
(***************************************************************************)
HexDigits == <<"0", "1", "2", "3", "4", "5", "6", "7", "8", "9",
               "a", "b", "c", "d", "e", "f">>

HexUpper == <<"0", "1", "2", "3", "4", "5", "6", "7", "8", "9",
              "A", "B", "C", "D", "E", "F">>

DecDigits == <<"0", "1", "2", "3", "4", "5", "6", "7", "8", "9">>

IsHexChar(c) == \E i \in 1..16 : HexDigits[i] = c \/ HexUpper[i] = c

HexVal(c) == (CHOOSE i \in 1..16 : HexDigits[i] = c \/ HexUpper[i] = c) - 1

IsDigit(c) == \E i \in 1..10 : DecDigits[i] = c

DigitVal(c) == (CHOOSE i \in 1..10 : DecDigits[i] = c) - 1

IsSpace(c) == c = " "

\* bytes.hex(): two lowercase hex digits per byte.
bytes_hex(b) ==
    [i \in 1..(2 * Len(b)) |->
        IF i % 2 = 1 THEN HexDigits[(b[(i + 1) \div 2] \div 16) + 1]
                     ELSE HexDigits[(b[i \div 2] % 16) + 1]]

NotSpace(c) == ~IsSpace(c)

\* bytes.fromhex(): pairs of hex digits, white space skipped before a pair
\* (never inside one); ValueError on anything else.
bytes_fromhex(text) ==
    LET paired(s) == \A i \in 1..Len(s) :
                        IsSpace(s[i]) =>
                            Cardinality({j \in 1..(i - 1) : NotSpace(s[j])}) % 2 = 0
        digits(h) == IF (\E i \in 1..Len(h) : ~IsHexChar(h[i])) \/ Len(h) % 2 # 0
                     THEN Raise("ValueError")
                     ELSE Return([k \in 1..(Len(h) \div 2) |->
                                    16 * HexVal(h[2 * k - 1]) + HexVal(h[2 * k])])
        parse(s) == IF ~paired(s) THEN Raise("ValueError")
                    ELSE Bind(SelectSeq(s, NotSpace), digits)
    IN  Bind(text, parse)

\* str(int): decimal digits, a leading "-" for a negative number.
RECURSIVE nat_str(_)
nat_str(n) ==
    IF n < 10 THEN <<DecDigits[n + 1]>>
    ELSE Append(nat_str(n \div 10), DecDigits[(n % 10) + 1])

int_str(n) == IF n < 0 THEN <<"-">> \o nat_str(-n) ELSE nat_str(n)

\* str.strip() of white space.
RECURSIVE lstrip(_)
lstrip(s) == IF s # <<>> /\ IsSpace(Head(s)) THEN lstrip(Tail(s)) ELSE s

RECURSIVE rstrip(_)
rstrip(s) ==
    IF s # <<>> /\ IsSpace(s[Len(s)]) THEN rstrip(SubSeq(s, 1, Len(s) - 1)) ELSE s

\* The digits of an int literal: digits with single underscores between them.
RECURSIVE digits_value(_, _, _)
digits_value(s, i, acc) ==
    IF i > Len(s) THEN Return(acc)
    ELSE IF IsDigit(s[i]) THEN digits_value(s, i + 1, 10 * acc + DigitVal(s[i]))
    ELSE IF s[i] = "_" /\ i > 1 /\ i < Len(s) /\ IsDigit(s[i - 1]) /\ IsDigit(s[i + 1])
         THEN digits_value(s, i + 1, acc)
    ELSE Raise("ValueError")

\* int(str): surrounding white space, an optional sign, decimal digits;
\* ValueError otherwise.
int_parse(text) ==
    LET s == rstrip(lstrip(text))
        signed == s # <<>> /\ s[1] \in {"-", "+"}
        body == IF signed THEN Tail(s) ELSE s
        r == digits_value(body, 1, 0)
    IN  IF body = <<>> THEN Raise("ValueError")
        ELSE IF r.raised # "none" THEN r
        ELSE IF signed /\ s[1] = "-" THEN Return(-r.value)
        ELSE r

\* str.split(":"): the pieces between the colons, one more than there are colons.
split_colon(s) ==
    LET colons == {i \in 1..Len(s) : s[i] = ":"}
        \* where the k-th piece starts and ends: after the (k-1)-th colon, before the k-th
        colon(k) == IF k = 0 THEN 0
                    ELSE IF k > Cardinality(colons) THEN Len(s) + 1
                    ELSE CHOOSE i \in colons : Cardinality({j \in colons : j < i}) = k - 1
    IN  [k \in 1..(Cardinality(colons) + 1) |-> SubSeq(s, colon(k - 1) + 1, colon(k) - 1)]

startswith(s, p) == Len(s) >= Len(p) /\ SubSeq(s, 1, Len(p)) = p

(***************************************************************************)
(* base64.urlsafe_b64decode / base64.b64decode (binascii.a2b_base64, not   *)
(* strict): characters outside the alphabet are skipped, a completed pad   *)
(* sequence ends the input, a dangling quantum is an error.                *)
(***************************************************************************)
B64Std == <<"A", "B", "C", "D", "E", "F", "G", "H", "I", "J", "K", "L", "M",
            "N", "O", "P", "Q", "R", "S", "T", "U", "V", "W", "X", "Y", "Z",
            "a", "b", "c", "d", "e", "f", "g", "h", "i", "j", "k", "l", "m",
            "n", "o", "p", "q", "r", "s", "t", "u", "v", "w", "x", "y", "z",
            "0", "1", "2", "3", "4", "5", "6", "7", "8", "9", "+", "/">>

IsB64Char(c) == \E i \in 1..64 : B64Std[i] = c

B64Val(c) == (CHOOSE i \in 1..64 : B64Std[i] = c) - 1

\* The only character outside ASCII that the modelled texts use.
IsAscii(c) == c # "é"

\* binascii.a2b_base64.  quad: the data characters read so far, modulo 4;
\* pads: the "=" since the last data character.  The first "=" that completes
\* a quantum of two or three data characters ends the input.
a2b_base64(text) ==
    LET data(s, i) == {j \in 1..i : IsB64Char(s[j])}
        quad(s, i) == Cardinality(data(s, i)) % 4
        pads(s, i) == Cardinality({j \in 1..i : /\ s[j] = "="
                                               /\ \A k \in data(s, i) : k < j})
        stops(s) == {i \in 1..Len(s) : /\ s[i] = "="
                                       /\ quad(s, i) >= 2
                                       /\ quad(s, i) + pads(s, i) >= 4}
        byte(d, k) == LET at == ((8 * (k - 1)) \div 6) + 1
                          r == (8 * (k - 1)) % 6
                      IN  CASE r = 0 -> B64Val(d[at]) * 4 + (B64Val(d[at + 1]) \div 16)
                            [] r = 2 -> (B64Val(d[at]) % 16) * 16 + (B64Val(d[at + 1]) \div 4)
                            [] OTHER -> (B64Val(d[at]) % 4) * 64 + B64Val(d[at + 1])
        bytes(d) == [k \in 1..((3 * Len(d)) \div 4) |-> byte(d, k)]
        scan(s) ==
            LET finish(ends) ==
                    LET read == IF ends = {} THEN s
                                ELSE SubSeq(s, 1, (CHOOSE i \in ends : \A j \in ends : i <= j) - 1)
                        decode(d) == IF ends = {} /\ Len(d) % 4 # 0
                                     THEN Raise("binascii.Error")
                                     ELSE Return(bytes(d))
                    IN  Bind(SelectSeq(read, IsB64Char), decode)
            IN  Bind(stops(s), finish)
    IN  Bind(text, scan)

b64decode(s) ==
    IF \E i \in 1..Len(s) : ~IsAscii(s[i]) THEN Raise("ValueError")
    ELSE a2b_base64(s)

urlsafe_translate(s) ==
    [i \in 1..Len(s) |-> IF s[i] = "-" THEN "+" ELSE IF s[i] = "_" THEN "/" ELSE s[i]]

urlsafe_b64decode(s) ==
    IF \E i \in 1..Len(s) : ~IsAscii(s[i]) THEN Raise("ValueError")
    ELSE a2b_base64(urlsafe_translate(s))

\* The byte read as an unsigned number.
unpack_b_unsigned(byte) == byte

\* struct.unpack("b", ...): one byte read as a signed number.
unpack_b(byte) == IF byte >= 128 THEN byte - 256 ELSE byte

(***************************************************************************)
(* types.py: Address.                                                      *)
(***************************************************************************)
\* The rendering with the workchain written as the unsigned byte it is stored in.
to_hex_text_unsigned(workchain, raw) ==
    int_str(workchain % 256) \o <<":">> \o bytes_hex(raw)

\* Address.to_hex: f"{workchain}:{raw.hex()}".
to_hex_text(workchain, raw) == int_str(workchain) \o <<":">> \o bytes_hex(raw)

\* The constructor without the length check of __post_init__.
Address_unchecked(raw, workchain) ==
    Return([raw |-> raw, workchain |-> workchain,
            friendly |-> to_hex_text(workchain, raw)])

\* The dataclass constructor with __post_init__.
Address(raw, workchain) ==
    IF Len(raw) # 32 THEN Raise("InvalidAddressError")
    ELSE Return([raw |-> raw, workchain |-> workchain,
                 friendly |-> to_hex_text(workchain, raw)])

to_hex(addr) == to_hex_text(addr.workchain, addr.raw)

\* Address.__str__.
address_str(addr) == addr.friendly

\* _from_base64 without the check that 36 bytes were decoded.
_from_base64_any_length(address) ==
    LET extract(decoded) ==
            IF decoded.raised # "none" THEN Raise("InvalidAddressError")
            ELSE IF Len(decoded.value) < 34 THEN Raise("InvalidAddressError")
            ELSE Address(SubSeq(decoded.value, 3, 34), unpack_b(decoded.value[2]))
        fallback(first) ==
            IF first.raised = "none" THEN extract(first)
            ELSE Bind(b64decode(address \o <<"=", "=">>), extract)
    IN  Bind(urlsafe_b64decode(address \o <<"=", "=">>), fallback)

_from_base64(address) ==
    LET extract(decoded) ==
            IF decoded.raised # "none" THEN Raise("InvalidAddressError")
            ELSE IF Len(decoded.value) # 36 THEN Raise("InvalidAddressError")
            ELSE Address(SubSeq(decoded.value, 3, 34), unpack_b(decoded.value[2]))
        fallback(first) ==
            IF first.raised = "none" THEN extract(first)
            ELSE Bind(b64decode(address \o <<"=", "=">>), extract)
    IN  Bind(urlsafe_b64decode(address \o <<"=", "=">>), fallback)

from_friendly(text) ==
    LET hex_form(parts) ==
            LET build(workchain) ==
                    LET construct(raw_bytes) ==
                            IF raw_bytes.raised # "none" THEN Raise("InvalidAddressError")
                            ELSE IF Len(raw_bytes.value) # 32
                                 THEN Raise("InvalidAddressError")
                            ELSE Address(raw_bytes.value, workchain.value)
                    IN  IF workchain.raised # "none" THEN Raise("InvalidAddressError")
                        ELSE Bind(bytes_fromhex(parts[2]), construct)
            IN  IF Len(parts) # 2 THEN Raise("InvalidAddressError")
                ELSE Bind(int_parse(parts[1]), build)
        parse(address) ==
            IF \/ startswith(address, <<"E", "Q">>)
               \/ startswith(address, <<"k", "Q">>)
               \/ startswith(address, <<"E", "f">>)
               \/ startswith(address, <<"U", "Q">>)
            THEN _from_base64(address)
            ELSE IF \E i \in 1..Len(address) : address[i] = ":"
                 THEN Bind(split_colon(address), hex_form)
            ELSE Raise("InvalidAddressError")
    IN  Bind(text, parse)

(***************************************************************************)
(* wallet.py: TransferMessage.                                             *)
(***************************************************************************)
\* struct.pack(">I" / "B" / ">Q", n): nbytes big-endian bytes of an unsigned
\* number, struct.error when it does not fit.
RECURSIVE be_bytes(_, _)
be_bytes(n, nbytes) ==
    IF nbytes = 0 THEN <<>> ELSE Append(be_bytes(n \div 256, nbytes - 1), n % 256)

RECURSIVE shifted_out(_, _)
shifted_out(n, nbytes) == IF nbytes = 0 THEN n ELSE shifted_out(n \div 256, nbytes - 1)

\* struct.pack with the bytes in little-endian order ("<I", "<Q").
pack_unsigned_little_endian(n, nbytes) ==
    IF n < 0 \/ shifted_out(n, nbytes) # 0 THEN Raise("struct.error")
    ELSE Return([i \in 1..nbytes |-> be_bytes(n, nbytes)[nbytes + 1 - i]])

\* struct.pack keeping the low bytes of a number that does not fit.
pack_unsigned_wrapping(n, nbytes) == Return(be_bytes(n, nbytes))

pack_unsigned(n, nbytes) ==
    IF n < 0 \/ shifted_out(n, nbytes) # 0 THEN Raise("struct.error")
    ELSE Return(be_bytes(n, nbytes))

\* struct.pack("b", n): one signed byte.
pack_b(n) ==
    IF n < -128 \/ n > 127 THEN Raise("struct.error")
    ELSE Return(<<IF n < 0 THEN n + 256 ELSE n>>)

\* str.encode("utf-8") over the characters the modelled comments use.
CodePoint(c) == CASE c = "h" -> 104 [] c = "i" -> 105 [] c = "é" -> 233 [] OTHER -> 63

\* str.encode("ascii", errors="ignore"): a character outside ASCII is dropped.
utf8_char_ascii_ignore(c) == IF CodePoint(c) < 128 THEN <<CodePoint(c)>> ELSE <<>>

utf8_char(c) ==
    LET cp == CodePoint(c)
    IN  IF cp < 128 THEN <<cp>> ELSE <<192 + (cp \div 64), 128 + (cp % 64)>>

RECURSIVE encode_utf8(_)
encode_utf8(s) == IF s = <<>> THEN <<>> ELSE utf8_char(Head(s)) \o encode_utf8(Tail(s))

\* to_bytes with the seqno packed a second time where valid_until belongs.
to_bytes_seqno_twice(m) ==
    LET seqno == pack_unsigned(m.seqno, 4)
        send_mode == pack_unsigned(m.send_mode, 1)
        workchain == pack_b(m.destination.workchain)
        amount == pack_unsigned(m.amount, 8)
        comment == IF m.comment # None /\ m.comment[1] # <<>>
                   THEN encode_utf8(m.comment[1]) ELSE <<>>
    IN  IF seqno.raised # "none" THEN seqno
        ELSE IF send_mode.raised # "none" THEN send_mode
        ELSE IF workchain.raised # "none" THEN workchain
        ELSE IF amount.raised # "none" THEN amount
        ELSE Return(seqno.value \o seqno.value \o send_mode.value
                    \o workchain.value \o m.destination.raw \o amount.value
                    \o comment)

\* TransferMessage.to_bytes: the first field that does not fit raises.
to_bytes(m) ==
    LET seqno == pack_unsigned(m.seqno, 4)
        valid_until == pack_unsigned(m.valid_until, 4)
        send_mode == pack_unsigned(m.send_mode, 1)
        workchain == pack_b(m.destination.workchain)
        amount == pack_unsigned(m.amount, 8)
        comment == IF m.comment # None /\ m.comment[1] # <<>>
                   THEN encode_utf8(m.comment[1]) ELSE <<>>
    IN  IF seqno.raised # "none" THEN seqno
        ELSE IF valid_until.raised # "none" THEN valid_until
        ELSE IF send_mode.raised # "none" THEN send_mode
        ELSE IF workchain.raised # "none" THEN workchain
        ELSE IF amount.raised # "none" THEN amount
        ELSE Return(seqno.value \o valid_until.value \o send_mode.value
                    \o workchain.value \o m.destination.raw \o amount.value
                    \o comment)

\* hashlib.sha256(...).digest(): a fixed 32-byte function of the bytes.  The
\* digest is a stand-in
\* (the bytes folded onto 32 positions, block by block), not SHA-256 itself.
RECURSIVE folded(_, _)
folded(b, i) == IF i > Len(b) THEN 0 ELSE (b[i] + 31 * folded(b, i + 32)) % 256

sha256(b) == [i \in 1..32 |-> (folded(b, i) + 7 * Len(b) + i) % 256]

\* TransferMessage.hash.
hash(m) ==
    LET digest(message_bytes) ==
            IF message_bytes.raised # "none" THEN message_bytes
            ELSE Return(sha256(message_bytes.value))
    IN  Bind(to_bytes(m), digest)

(***************************************************************************)
(* wallet.py: Wallet.  A wallet is a record [address, key_pair, seqno].    *)
(***************************************************************************)
KeyPair(secret_key, public_key) ==
    IF Len(secret_key) # 32 THEN Raise("ValueError")
    ELSE IF Len(public_key) # 32 THEN Raise("ValueError")
    ELSE Return([secret_key |-> secret_key, public_key |-> public_key])

\* KeyPair.public_key_hex.
public_key_hex(kp) == bytes_hex(kp.public_key)

\* A __repr__ that renders both keys.
KeyPair_repr_both_keys(kp) ==
    <<"K", "e", "y", "P", "a", "i", "r", "(", "p", "u", "b", "l", "i", "c", "_", "k", "e", "y", "=">>
    \o bytes_hex(kp.public_key)
    \o <<",", " ", "s", "e", "c", "r", "e", "t", "_", "k", "e", "y", "=">>
    \o bytes_hex(kp.secret_key) \o <<")">>

\* KeyPair.__repr__.
KeyPair_repr(kp) ==
    <<"K", "e", "y", "P", "a", "i", "r", "(", "p", "u", "b", "l", "i", "c", "_", "k", "e", "y", "=">>
    \o bytes_hex(kp.public_key)
    \o <<",", " ", "s", "e", "c", "r", "e", "t", "_", "k", "e", "y", "=", "[", "R", "E", "D", "A", "C", "T", "E", "D", "]", ")">>

\* str(kp): the class defines no __str__, so object's, which is __repr__.
KeyPair_str(kp) == KeyPair_repr(kp)

\* Wallet.__init__.
Wallet(address, key_pair) == [address |-> address, key_pair |-> key_pair, seqno |-> 0]

\* Wallet.read_only.
read_only(address) == Wallet(address, None)

\* can_sign answering yes for every wallet.
can_sign_always(wallet) == TRUE

can_sign(wallet) == wallet.key_pair # None

\* create_transfer_message leaving the comment for the encoder to look up.
create_transfer_message_without_comment(wallet, p) ==
    IF ~can_sign(wallet) THEN Raise("SignatureError")
    ELSE Return([seqno |-> wallet.seqno,
                 valid_until |-> p.valid_until,
                 send_mode |-> p.send_mode,
                 destination |-> p.to,
                 amount |-> p.amount,
                 comment |-> None])

\* create_transfer_message with the default send mode in place of the params'.
create_transfer_message_default_mode(wallet, p) ==
    IF ~can_sign(wallet) THEN Raise("SignatureError")
    ELSE Return([seqno |-> wallet.seqno,
                 valid_until |-> p.valid_until,
                 send_mode |-> 3,
                 destination |-> p.to,
                 amount |-> p.amount,
                 comment |-> p.comment])

create_transfer_message(wallet, p) ==
    IF ~can_sign(wallet) THEN Raise("SignatureError")
    ELSE Return([seqno |-> wallet.seqno,
                 valid_until |-> p.valid_until,
                 send_mode |-> p.send_mode,
                 destination |-> p.to,
                 amount |-> p.amount,
                 comment |-> p.comment])

\* os.urandom(n): any n bytes; two of them stand for all.
urandom(n) == {Rep(0, n), Rep(255, n)}

\* sign with its two checks in the other order.
sign_length_first(wallet, message_hash, random) ==
    IF Len(message_hash) # 32 THEN Raise("ValueError")
    ELSE IF wallet.key_pair = None THEN Raise("SignatureError")
    ELSE Return(random)

\* Wallet.sign, with the bytes os.urandom hands out.
sign(wallet, message_hash, random) ==
    IF wallet.key_pair = None THEN Raise("SignatureError")
    ELSE IF Len(message_hash) # 32 THEN Raise("ValueError")
    ELSE Return(random)

(***************************************************************************)
(* types.py: the value records.                                            *)
(***************************************************************************)
TransactionResult(hash_, lt, fee, success, error) ==
    [hash |-> hash_, lt |-> lt, fee |-> fee, success |-> success, error |-> error]

WalletState(balance, seqno, is_deployed, last_transaction_lt) ==
    [balance |-> balance, seqno |-> seqno, is_deployed |-> is_deployed,
     last_transaction_lt |-> last_transaction_lt]

\* TransferParams(to, amount) constructed at clock time now.
TransferParams(to, amount, now) ==
    [to |-> to, amount |-> amount, comment |-> None, send_mode |-> 3,
     valid_until |-> now + 60]

with_comment(p, comment) == [p EXCEPT !.comment = Some(comment)]

with_send_mode(p, mode) == [p EXCEPT !.send_mode = mode]

with_valid_until(p, valid_until) == [p EXCEPT !.valid_until = valid_until]

(***************************************************************************)
(* client.py: WalletClient.  A client call's outcome carries, beside what  *)
(* it returned or raised, the ledger queries and broadcasts it issued.     *)
(***************************************************************************)
Outcome(r, queries, broadcasts) ==
    [raised |-> r.raised, value |-> r.value, queries |-> queries,
     broadcasts |-> broadcasts]

get_balance(address) ==
    LET query(_parsed) ==
            IF _parsed.raised # "none" THEN Outcome(_parsed, 0, 0)
            ELSE Outcome(Return(0), 1, 0)
    IN  Bind(from_friendly(address), query)

\* get_wallet_state going to the ledger without parsing the address.
get_wallet_state_unvalidated(address) ==
    Outcome(Return(WalletState(0, 0, FALSE, None)), 1, 0)

get_wallet_state(address) ==
    LET query(_parsed) ==
            IF _parsed.raised # "none" THEN Outcome(_parsed, 0, 0)
            ELSE Outcome(Return(WalletState(0, 0, FALSE, None)), 1, 0)
    IN  Bind(from_friendly(address), query)

\* get_seqno asking the ledger again for the state it was already given.
get_seqno_requeried(address) ==
    LET seqno_of(state) ==
            IF state.raised # "none" THEN state
            ELSE Outcome(Return(state.value.seqno), state.queries + 1, state.broadcasts)
    IN  Bind(get_wallet_state(address), seqno_of)

get_seqno(address) ==
    LET seqno_of(state) ==
            IF state.raised # "none" THEN state
            ELSE Outcome(Return(state.value.seqno), state.queries, state.broadcasts)
    IN  Bind(get_wallet_state(address), seqno_of)

DeploymentHash ==
    <<"d", "e", "p", "l", "o", "y", "m", "e", "n", "t", "_", "h", "a", "s", "h",
      "_", "p", "l", "a", "c", "e", "h", "o", "l", "d", "e", "r">>

deploy(wallet, initial_balance) ==
    IF ~can_sign(wallet) THEN Outcome(Raise("SignatureError"), 0, 0)
    ELSE Outcome(Return(TransactionResult(DeploymentHash, 0, 0, TRUE, None)), 0, 0)

\* send without its capability check.
send_precondition_unchecked(wallet) == Return(None)

\* send checking that the wallet has an address, not that it can sign.
send_precondition_address_only(wallet) ==
    IF wallet.address = None THEN Raise("SignatureError") ELSE Return(None)

\* send, line 204: the capability check that opens the coroutine.
send_precondition(wallet) ==
    IF ~can_sign(wallet) THEN Raise("SignatureError") ELSE Return(None)

\* send, line 215: the ledger query for the wallet's own address.
send_query(wallet) == get_seqno(to_hex(wallet.address))

\* send keeping the seqno the wallet held, the assignment of line 216 left out.
send_refreshed_seqno_stale(wallet, current_seqno) == wallet.seqno

\* send never taking the wallet's seqno back: the higher of the cached and
\* the fetched seqno is kept.
send_refreshed_seqno_kept_higher(wallet, current_seqno) ==
    IF wallet.seqno > current_seqno THEN wallet.seqno ELSE current_seqno

\* send counting its own sends: a fetched seqno the wallet already holds is
\* stepped past.
send_refreshed_seqno_counted(wallet, current_seqno) ==
    IF wallet.seqno >= current_seqno THEN wallet.seqno + 1 ELSE current_seqno

\* send, line 216: the value wallet.seqno takes once the query has answered.
send_refreshed_seqno(wallet, current_seqno) == current_seqno

\* send, lines 234-240: the result handed back, and the broadcasts made for it.
send_result(msg_hash) ==
    Outcome(Return(TransactionResult(bytes_hex(msg_hash), 0, 0, TRUE, None)), 0, 0)

(***************************************************************************)
(* The program: two wallets, one TransferParams object, the send           *)
(* coroutines of one event loop, and the caller's other calls.             *)
(***************************************************************************)
MaxSends == 2

MaxSeqno == 1

VARIABLES
    wallets,    \* wallet id -> [address, key_pair, seqno]
    params,     \* params id -> the TransferParams object
    sends,      \* send call -> its coroutine frame
    running,    \* the send call the event loop is executing, 0 when none
    last,       \* the caller's last call outside send, with its outcome
    users,          \* accounts service: user id -> the stored user
    accounts,       \* accounts service: account id -> [user_id, balance]
    transactions,   \* accounts service: transaction id -> the stored transaction
    response,       \* accounts service: the last request, what it was answered
                    \* and the stores as they were when it arrived
    resumes,            \* resume service: resume id -> the stored resume
    uuids,              \* resume service: the uuid4 values drawn so far
    resume_response,    \* resume service: the last request, what it was
                        \* answered and the store as it was when it arrived
    active_connections, \* chat service: room name -> the list of its websockets
    websockets,         \* chat service: websocket -> the client's end of it
    handlers            \* chat service: websocket -> the frame of its
                        \* websocket_endpoint coroutine

vars == <<wallets, params, sends, running, last, users, accounts, transactions,
          response, resumes, uuids, resume_response, active_connections,
          websockets, handlers>>

\* The state of the resume service and of the chat service.
resume_service == <<resumes, uuids, resume_response>>

chat_service == <<active_connections, websockets, handlers>>

\* The state of the three microservices, which no call of the wallet client
\* touches.
service == <<users, accounts, transactions, response, resume_service, chat_service>>

WalletIds == {"w1", "w2"}

ParamIds == {"p1"}

SendIds == 1..MaxSends

A1 == Address(Rep(171, 32), 0).value

A2 == Address(Rep(1, 32), -1).value

KP == KeyPair(Rep(1, 32), Rep(2, 32)).value

\* The address texts the caller passes to the queries: a base64 prefix and a
\* tail (46 characters decode, with the prefix, to 36 bytes), a workchain
\* segment, a colon and a hex payload, and texts of neither form.
Base64Prefixes == { <<"E", "Q">>, <<"k", "Q">>, <<"E", "f">>, <<"U", "Q">> }

Base64Tails ==
    { Rep("A", 46), Rep("A", 45), Rep("A", 47), <<"-">> \o Rep("A", 46),
      <<"é">> \o Rep("A", 46), Rep("_", 46) \o <<"=">> }

WorkchainTexts == { <<"0">>, <<"-", "1">>, <<"x">>, <<>>, <<" ", "1", "_", "0">> }

HexPayloads ==
    { bytes_hex(Rep(171, 32)), bytes_hex(Rep(171, 31)),
      <<"z">> \o bytes_hex(Rep(171, 32)), bytes_hex(Rep(171, 32)) \o <<":">> }

AddressTexts ==
    {prefix \o tail : prefix \in Base64Prefixes, tail \in Base64Tails}
    \cup {workchain \o <<":">> \o payload :
            workchain \in WorkchainTexts, payload \in HexPayloads}
    \cup { <<"h", "i">>, <<>>, to_hex(A1), to_hex(A2) }

\* The hashes the caller passes to Wallet.sign.
SignInputs == { Rep(7, 0), Rep(7, 31), Rep(7, 32), Rep(7, 33) }

CommentArgs == { <<"h", "i">> }

SendModeArgs == { 256 }

ValidUntilArgs == { 0 }

\* A send call: its arguments, its place (pc), its locals, its outcome and what
\* it asked of the ledger.  Two fields record what an observer of the call
\* sees: seqno_before, the wallet's seqno when send was called, and
\* overlapped, the sends that were waiting for the ledger when this one asked.
IdleFrame ==
    [pc |-> "idle", wallet |-> "-", params |-> "-", current_seqno |-> None,
     message |-> None, msg_hash |-> None, signature |-> None, outcome |-> None,
     queries |-> 0, broadcasts |-> 0, seqno_before |-> None, overlapped |-> {}]

NoCall ==
    [op |-> "none", wallet |-> "-", params |-> "-", address |-> <<>>,
     message_hash |-> <<>>, outcome |-> None, before |-> None, after |-> None]

\* Before the first request: main.py starts with three empty dicts.
NoRequest ==
    [op |-> "none", request |-> None, status_code |-> 0, detail |-> "-",
     body |-> None, before |-> None]

\* Before the first request: resume/app/main.py starts with an empty dict.
NoResumeRequest ==
    [op |-> "none", request |-> None, resume_id |-> 0, status_code |-> 0,
     detail |-> "-", body |-> None, before |-> <<>>]

\* The WebSocket objects the chat service is handed, one per client connection.
WebSockets == {1, 2, 3}

\* A client's end of a websocket before the handshake: it has sent nothing
\* and received nothing.
NewWebSocket == [state |-> "connecting", outgoing |-> <<>>, received |-> <<>>]

\* The dict broadcast is handed when the client's text has none of the keys.
NoMessage == [message |-> "", phone_number |-> "", avatar |-> ""]

\* The websocket_endpoint coroutine of a websocket that has not been called.
\* read counts the texts receive_text has returned; list, index and connection
\* are the list iterator of broadcast's for loop and the connection whose
\* send_json is awaited; snapshot and delivered record, for the last
\* broadcast, the connections the room had when it began and the ones whose
\* send_json returned; printed is what line 91 printed last.
NoHandler ==
    [pc |-> "none", room_name |-> "-", read |-> 0, message |-> NoMessage,
     list |-> 0, index |-> 0, connection |-> 0, disconnected |-> <<>>,
     snapshot |-> {}, delivered |-> {}, printed |-> "none", raised |-> "none"]

Init ==
    /\ wallets = [w \in WalletIds |->
                    IF w = "w1" THEN Wallet(A1, Some(KP)) ELSE read_only(A2)]
    /\ params = [p \in ParamIds |-> TransferParams(A2, 1000000000, 1700000000)]
    /\ sends = [c \in SendIds |-> IdleFrame]
    /\ running = 0
    /\ last = NoCall
    /\ users = <<>>
    /\ accounts = <<>>
    /\ transactions = <<>>
    /\ response = NoRequest
    /\ resumes = <<>>
    /\ uuids = {}
    /\ resume_response = NoResumeRequest
    /\ active_connections = <<>>
    /\ websockets = [websocket \in WebSockets |-> NewWebSocket]
    /\ handlers = [websocket \in WebSockets |-> NoHandler]

\* What a caller sees of a wallet and a params object around a call.
Observed(w, p) == [seqno |-> wallets[w].seqno, params |-> params[p]]

(***************************************************************************)
(* The caller's own steps, between coroutine steps of the event loop.      *)
(***************************************************************************)
\* wallet.seqno = value.
SetSeqno(w, value) ==
    /\ running = 0
    /\ wallets' = [wallets EXCEPT ![w].seqno = value]
    /\ UNCHANGED <<params, sends, running, last, service>>

WithComment(p, comment) ==
    /\ running = 0
    /\ params' = [params EXCEPT ![p] = with_comment(@, comment)]
    /\ UNCHANGED <<wallets, sends, running, last, service>>

WithSendMode(p, mode) ==
    /\ running = 0
    /\ params' = [params EXCEPT ![p] = with_send_mode(@, mode)]
    /\ UNCHANGED <<wallets, sends, running, last, service>>

WithValidUntil(p, valid_until) ==
    /\ running = 0
    /\ params' = [params EXCEPT ![p] = with_valid_until(@, valid_until)]
    /\ UNCHANGED <<wallets, sends, running, last, service>>

CreateTransferMessage(w, p) ==
    /\ running = 0
    /\ UNCHANGED <<wallets, params, sends, running, service>>
    /\ last' = [NoCall EXCEPT !.op = "create_transfer_message", !.wallet = w,
                              !.params = p,
                              !.outcome = Some(create_transfer_message(wallets[w], params[p])),
                              !.before = Some(Observed(w, p)),
                              !.after = Some([seqno |-> wallets'[w].seqno,
                                              params |-> params'[p]])]

Sign(w, message_hash) ==
    /\ running = 0
    /\ \E random \in urandom(64) :
        last' = [NoCall EXCEPT !.op = "sign", !.wallet = w,
                               !.message_hash = message_hash,
                               !.outcome = Some(sign(wallets[w], message_hash, random))]
    /\ UNCHANGED <<wallets, params, sends, running, service>>

(***************************************************************************)
(* The client's calls that never wait: they run to their end in one step.  *)
(***************************************************************************)
GetBalance(address) ==
    /\ running = 0
    /\ last' = [NoCall EXCEPT !.op = "get_balance", !.address = address,
                              !.outcome = Some(get_balance(address))]
    /\ UNCHANGED <<wallets, params, sends, running, service>>

GetWalletState(address) ==
    /\ running = 0
    /\ last' = [NoCall EXCEPT !.op = "get_wallet_state", !.address = address,
                              !.outcome = Some(get_wallet_state(address))]
    /\ UNCHANGED <<wallets, params, sends, running, service>>

GetSeqno(address) ==
    /\ running = 0
    /\ last' = [NoCall EXCEPT !.op = "get_seqno", !.address = address,
                              !.outcome = Some(get_seqno(address))]
    /\ UNCHANGED <<wallets, params, sends, running, service>>

Deploy(w, initial_balance) ==
    /\ running = 0
    /\ last' = [NoCall EXCEPT !.op = "deploy", !.wallet = w,
                              !.outcome = Some(deploy(wallets[w], initial_balance))]
    /\ UNCHANGED <<wallets, params, sends, running, service>>

(***************************************************************************)
(* WalletClient.send, a coroutine: it can be suspended only at its await   *)
(* (line 215); its other steps run without another call in between.        *)
(***************************************************************************)
Frame(c) == sends[c]

Raised(frame, r) ==
    [frame EXCEPT !.pc = "raised", !.outcome = Some([raised |-> r.raised, value |-> r.value])]

\* Lines 204-212: the call, and its capability check.
SendStart(c, w, p) ==
    /\ running = 0
    /\ Frame(c).pc = "idle"
    /\ \A d \in SendIds : d < c => Frame(d).pc # "idle"
    /\ LET pre == send_precondition(wallets[w])
           frame  == [Frame(c) EXCEPT !.wallet = w, !.params = p,
                                     !.seqno_before = Some(wallets[w].seqno)]
       IN  IF pre.raised # "none"
           THEN /\ sends' = [sends EXCEPT ![c] = Raised(frame, pre)]
                /\ running' = 0
           ELSE /\ sends' = [sends EXCEPT ![c] = [frame EXCEPT !.pc = "query"]]
                /\ running' = c
    /\ UNCHANGED <<wallets, params, last, service>>

\* Line 215, up to the await: get_seqno is asked for the wallet's address.
SendQuery(c) ==
    /\ running = c
    /\ Frame(c).pc = "query"
    /\ \E q \in {send_query(wallets[Frame(c).wallet])} :
        LET frame == [Frame(c) EXCEPT !.queries = @ + q.queries,
                                      !.broadcasts = @ + q.broadcasts,
                                      !.overlapped = {d \in SendIds :
                                                        Frame(d).pc = "awaiting"}]
        IN IF q.raised # "none"
           THEN sends' = [sends EXCEPT ![c] = Raised(frame, q)]
           ELSE sends' = [sends EXCEPT ![c] = [frame EXCEPT !.pc = "awaiting",
                                                           !.current_seqno = Some(q.value)]]
    /\ running' = 0
    /\ UNCHANGED <<wallets, params, last, service>>

\* Lines 215-216, after the await: the seqno goes into the wallet.
SendResume(c) ==
    /\ running = 0
    /\ Frame(c).pc = "awaiting"
    /\ wallets' = [wallets EXCEPT ![Frame(c).wallet].seqno =
                      send_refreshed_seqno(wallets[Frame(c).wallet],
                                           Frame(c).current_seqno[1])]
    /\ sends' = [sends EXCEPT ![c].pc = "build"]
    /\ running' = c
    /\ UNCHANGED <<params, last, service>>

\* Line 219.
SendBuild(c) ==
    /\ running = c
    /\ Frame(c).pc = "build"
    /\ \E m \in {create_transfer_message(wallets[Frame(c).wallet],
                                         params[Frame(c).params])} :
           IF m.raised # "none"
           THEN /\ sends' = [sends EXCEPT ![c] = Raised(Frame(c), m)]
                /\ running' = 0
           ELSE /\ sends' = [sends EXCEPT ![c] = [Frame(c) EXCEPT !.pc = "hash",
                                                                !.message = Some(m.value)]]
                /\ running' = c
    /\ UNCHANGED <<wallets, params, last, service>>

\* Line 222.
SendHash(c) ==
    /\ running = c
    /\ Frame(c).pc = "hash"
    /\ \E h \in {hash(Frame(c).message[1])} :
           IF h.raised # "none"
           THEN /\ sends' = [sends EXCEPT ![c] = Raised(Frame(c), h)]
                /\ running' = 0
           ELSE /\ sends' = [sends EXCEPT ![c] = [Frame(c) EXCEPT !.pc = "sign",
                                                                !.msg_hash = Some(h.value)]]
                /\ running' = c
    /\ UNCHANGED <<wallets, params, last, service>>

\* Line 223.
SendSign(c) ==
    /\ running = c
    /\ Frame(c).pc = "sign"
    /\ \E random \in urandom(64) :
        \E s \in {sign(wallets[Frame(c).wallet], Frame(c).msg_hash[1], random)} :
            IF s.raised # "none"
            THEN /\ sends' = [sends EXCEPT ![c] = Raised(Frame(c), s)]
                 /\ running' = 0
            ELSE /\ sends' = [sends EXCEPT ![c] = [Frame(c) EXCEPT !.pc = "result",
                                                                 !.signature = Some(s.value)]]
                 /\ running' = c
    /\ UNCHANGED <<wallets, params, last, service>>

\* Lines 225-240: nothing is handed on; the result is made up and returned.
\* The signature, a local nothing reads, goes with the frame.
SendReturn(c) ==
    /\ running = c
    /\ Frame(c).pc = "result"
    /\ \E r \in {send_result(Frame(c).msg_hash[1])} :
           sends' = [sends EXCEPT ![c] =
                        [Frame(c) EXCEPT !.pc = "returned",
                                         !.signature = None,
                                         !.queries = @ + r.queries,
                                         !.broadcasts = @ + r.broadcasts,
                                         !.outcome = Some([raised |-> r.raised,
                                                           value |-> r.value])]]
    /\ running' = 0
    /\ UNCHANGED <<wallets, params, last, service>>

(***************************************************************************)
(* Three specifications over the same state.  The calls outside send write *)
(* only `last`, and send reads nothing of it, so they are checked apart:   *)
(* Spec has the send coroutines and the caller's assignments, SpecWallet   *)
(* the caller's direct Wallet calls, SpecCalls the client's calls that     *)
(* never wait.                                                             *)
(***************************************************************************)
CallerStep ==
    \/ \E w \in WalletIds, value \in 0..MaxSeqno : SetSeqno(w, value)
    \/ \E p \in ParamIds, comment \in CommentArgs : WithComment(p, comment)
    \/ \E p \in ParamIds, mode \in SendModeArgs : WithSendMode(p, mode)
    \/ \E p \in ParamIds, valid_until \in ValidUntilArgs : WithValidUntil(p, valid_until)

NextWallet ==
    \/ CallerStep
    \/ \E w \in WalletIds, p \in ParamIds : CreateTransferMessage(w, p)
    \/ \E w \in WalletIds, message_hash \in SignInputs : Sign(w, message_hash)

SpecWallet == Init /\ [][NextWallet]_vars

NextCalls ==
    \/ \E address \in AddressTexts : GetBalance(address)
    \/ \E address \in AddressTexts : GetWalletState(address)
    \/ \E address \in AddressTexts : GetSeqno(address)
    \/ \E w \in WalletIds, initial_balance \in {0, 1000000000} : Deploy(w, initial_balance)

SpecCalls == Init /\ [][NextCalls]_vars

\* What the caller does between the steps of its sends: the params' expiry is
\* left as constructed.
SendCallerStep ==
    \/ \E w \in WalletIds, value \in 0..MaxSeqno : SetSeqno(w, value)
    \/ \E p \in ParamIds, comment \in CommentArgs : WithComment(p, comment)
    \/ \E p \in ParamIds, mode \in SendModeArgs : WithSendMode(p, mode)

Next ==
    \/ SendCallerStep
    \/ \E c \in SendIds, w \in WalletIds, p \in ParamIds : SendStart(c, w, p)
    \/ \E c \in SendIds : SendQuery(c)
    \/ \E c \in SendIds : SendResume(c)
    \/ \E c \in SendIds : SendBuild(c)
    \/ \E c \in SendIds : SendHash(c)
    \/ \E c \in SendIds : SendSign(c)
    \/ \E c \in SendIds : SendReturn(c)

Spec == Init /\ [][Next]_vars

\* The client's calls together: the queries, for an address that parses and
\* one that does not, beside the sends, with the one caller step that makes a
\* send fail after its query (a send_mode that does not fit a byte).
QueryAddressArgs == { to_hex(A1), <<"h", "i">> }

NextClient ==
    \/ \E p \in ParamIds, mode \in SendModeArgs : WithSendMode(p, mode)
    \/ \E address \in QueryAddressArgs : GetBalance(address)
    \/ \E address \in QueryAddressArgs : GetWalletState(address)
    \/ \E address \in QueryAddressArgs : GetSeqno(address)
    \/ \E c \in SendIds, w \in WalletIds, p \in ParamIds : SendStart(c, w, p)
    \/ \E c \in SendIds : SendQuery(c)
    \/ \E c \in SendIds : SendResume(c)
    \/ \E c \in SendIds : SendBuild(c)
    \/ \E c \in SendIds : SendHash(c)
    \/ \E c \in SendIds : SendSign(c)
    \/ \E c \in SendIds : SendReturn(c)

SpecClient == Init /\ [][NextClient]_vars

\* Every call that is given a wallet, around one send: the caller's
\* assignment to wallet.seqno, the Wallet methods, deploy, the queries for the
\* signing wallet's address, and the steps of the first send.
NextWalletFrame ==
    \/ \E w \in WalletIds, value \in 0..MaxSeqno : SetSeqno(w, value)
    \/ \E w \in WalletIds, p \in ParamIds : CreateTransferMessage(w, p)
    \/ \E w \in WalletIds : Sign(w, Rep(7, 32))
    \/ \E w \in WalletIds : Deploy(w, 1000000000)
    \/ GetBalance(to_hex(A1))
    \/ GetWalletState(to_hex(A1))
    \/ GetSeqno(to_hex(A1))
    \/ \E w \in WalletIds, p \in ParamIds : SendStart(1, w, p)
    \/ SendQuery(1)
    \/ SendResume(1)
    \/ SendBuild(1)
    \/ SendHash(1)
    \/ SendSign(1)
    \/ SendReturn(1)

SpecWalletFrame == Init /\ [][NextWalletFrame]_vars


(***************************************************************************)
(* Address on its own: the caller constructs addresses and parses texts,   *)
(* and of every address it gets it takes the rendering and parses that.    *)
(***************************************************************************)
\* The raw payloads the caller constructs with: three of 32 bytes, and
\* payloads of other lengths.
RawArgs ==
    { Rep(171, 32), Rep(0, 32), [i \in 1..32 |-> (37 * i + 218) % 256],
      Rep(171, 0), Rep(171, 31), Rep(171, 33) }

WorkchainArgs == { -129, -128, -1, 0, 127, 128, 100000 }

\* The texts the caller parses: those of the queries, base64 texts of 37
\* decoded bytes and of 36 bytes that end in other checksum bytes, the
\* renderings of the addresses it constructs, and hex forms with white space
\* or upper case in the payload.
ParseTexts ==
    AddressTexts
    \cup {prefix \o Rep("A", 48) : prefix \in Base64Prefixes}
    \cup {prefix \o Rep("A", 43) \o <<"P", "_", "/">> : prefix \in Base64Prefixes}
    \cup {to_hex_text(workchain, raw) :
            workchain \in WorkchainArgs, raw \in {r \in RawArgs : Len(r) = 32}}
    \cup { <<"0", ":", " ">> \o bytes_hex(Rep(171, 32)),
           <<"0", ":">> \o bytes_hex(Rep(171, 16)) \o <<" ">> \o bytes_hex(Rep(171, 16)),
           <<"0", ":">> \o Rep("A", 64),
           <<"0", ":", "a", " ">> \o bytes_hex(Rep(171, 31)) \o <<"b">>,
           <<"E", "Q", ":">> \o bytes_hex(Rep(171, 32)),
           <<"E", "Q">> \o Rep("A", 23) \o <<":">> \o Rep("A", 23) }

\* str(addr), addr.to_hex() and Address.from_friendly(str(addr)).
Rendered(addr) ==
    [str |-> address_str(addr), to_hex |-> to_hex(addr),
     parsed |-> from_friendly(address_str(addr))]

NewAddress(raw, workchain) ==
    /\ running = 0
    /\ \E made \in {Address(raw, workchain)} :
        last' = [NoCall EXCEPT !.op = "Address",
                               !.before = Some([raw |-> raw, workchain |-> workchain]),
                               !.outcome = Some(made),
                               !.after = IF made.raised = "none"
                                         THEN Some(Rendered(made.value)) ELSE None]
    /\ UNCHANGED <<wallets, params, sends, running, service>>

FromFriendly(text) ==
    /\ running = 0
    /\ \E made \in {from_friendly(text)} :
        last' = [NoCall EXCEPT !.op = "from_friendly",
                               !.address = text,
                               !.outcome = Some(made),
                               !.after = IF made.raised = "none"
                                         THEN Some(Rendered(made.value)) ELSE None]
    /\ UNCHANGED <<wallets, params, sends, running, service>>

NextAddress ==
    \/ \E raw \in RawArgs, workchain \in WorkchainArgs : NewAddress(raw, workchain)
    \/ \E text \in ParseTexts : FromFriendly(text)

SpecAddress == Init /\ [][NextAddress]_vars

(***************************************************************************)
(* TransferMessage on its own: the caller makes a message of fields of its *)
(* own and encodes it.                                                     *)
(***************************************************************************)
A3 == Address(Rep(0, 32), 128).value

A4 == Address(Rep(0, 32), -129).value

TransferMessage(seqno, valid_until, send_mode, destination, amount, comment) ==
    [seqno |-> seqno, valid_until |-> valid_until, send_mode |-> send_mode,
     destination |-> destination, amount |-> amount, comment |-> comment]

\* The messages the caller makes: fields that fit their width and fields that
\* do not, no comment, the empty comment, and comments of one and two
\* characters, in and outside ASCII; and messages with one field below its
\* range each, and one with the largest numbers the checker's integers hold.
MessageComments ==
    { None, Some(<<>>), Some(<<"h">>), Some(<<"h", "i">>), Some(<<"h", "é">>) }

Messages ==
    { TransferMessage(seqno, valid_until, send_mode, destination, amount, comment) :
        seqno \in {0, 5}, valid_until \in {0, 1700000000}, send_mode \in {3, 0, 256},
        destination \in {A1, A2, A3}, amount \in {0, 1000000000, -1},
        comment \in MessageComments }
    \cup { TransferMessage(-1, 1700000000, 3, A1, 1000000000, None),
           TransferMessage(5, -1, 3, A1, 1000000000, None),
           TransferMessage(5, 1700000000, -1, A1, 1000000000, None),
           TransferMessage(5, 1700000000, 3, A4, 1000000000, None),
           TransferMessage(2147483647, 2147483647, 255, A2, 2147483647, None) }

ToBytes(m) ==
    /\ running = 0
    /\ last' = [NoCall EXCEPT !.op = "to_bytes",
                              !.before = Some(m),
                              !.outcome = Some(to_bytes(m))]
    /\ UNCHANGED <<wallets, params, sends, running, service>>

NextMessage == \E m \in Messages : ToBytes(m)

SpecMessage == Init /\ [][NextMessage]_vars

(***************************************************************************)
(* KeyPair on its own: the caller constructs key pairs and renders those   *)
(* it gets.                                                                *)
(***************************************************************************)
\* The keys the caller constructs with: six of 32 bytes, and keys of other
\* lengths.
KeyArgs ==
    { Rep(1, 32), Rep(2, 32), Rep(171, 32), Rep(0, 32), Rep(255, 32),
      [i \in 1..32 |-> (37 * i + 218) % 256],
      Rep(1, 0), Rep(1, 31), Rep(1, 33), Rep(171, 16), Rep(171, 64) }

NewKeyPair(secret_key, public_key) ==
    /\ running = 0
    /\ \E made \in {KeyPair(secret_key, public_key)} :
        last' = [NoCall EXCEPT !.op = "KeyPair",
                               !.before = Some([secret_key |-> secret_key,
                                                public_key |-> public_key]),
                               !.outcome = Some(made),
                               !.after = IF made.raised = "none"
                                         THEN Some([repr |-> KeyPair_repr(made.value),
                                                    str |-> KeyPair_str(made.value)])
                                         ELSE None]
    /\ UNCHANGED <<wallets, params, sends, running, service>>

NextKeyPair ==
    \E secret_key \in KeyArgs, public_key \in KeyArgs : NewKeyPair(secret_key, public_key)

SpecKeyPair == Init /\ [][NextKeyPair]_vars

(***************************************************************************)
(* accounts/app/main.py: decimal.Decimal as the service uses it, under the *)
(* default context (28 significant digits, ROUND_HALF_EVEN, InvalidOperation*)
(* trapped).  A finite decimal is a record [sign, int, exp] as in Python:  *)
(* sign 0 or 1, int the coefficient's digits without leading zeros, exp    *)
(* the exponent.  NaN and the infinities are left out: no text tried       *)
(* spells them.                                                            *)
(***************************************************************************)
strip_zeros(d) ==
    IF \A i \in 1..Len(d) : d[i] = 0 THEN <<0>>
    ELSE SubSeq(d, CHOOSE i \in 1..Len(d) : d[i] # 0 /\ \A j \in 1..(i - 1) : d[j] = 0,
                Len(d))

\* The coefficient d * 10^shift written with n digits.
aligned(d, shift, n) == Rep(0, n - Len(d) - shift) \o d \o Rep(0, shift)

\* a < b, a + b and a - b (for a >= b) of coefficients written with the same
\* number of digits; the sum has one digit more.
mag_less(a, b) ==
    \E i \in 1..Len(a) : a[i] < b[i] /\ \A j \in 1..(i - 1) : a[j] = b[j]

mag_add(a, b) ==
    LET carry(i) == IF \E j \in (i + 1)..Len(a) :
                            /\ a[j] + b[j] >= 10
                            /\ \A k \in (i + 1)..(j - 1) : a[k] + b[k] = 9
                    THEN 1 ELSE 0
    IN  [i \in 1..(Len(a) + 1) |->
            IF i = 1 THEN carry(0) ELSE (a[i - 1] + b[i - 1] + carry(i - 1)) % 10]

mag_sub(a, b) ==
    LET borrow(i) == IF \E j \in (i + 1)..Len(a) :
                             /\ a[j] < b[j]
                             /\ \A k \in (i + 1)..(j - 1) : a[k] = b[k]
                     THEN 1 ELSE 0
    IN  [i \in 1..Len(a) |-> (a[i] - b[i] - borrow(i) + 10) % 10]

\* The sum of two decimals before the context rounds it: the coefficients are
\* brought to the smaller exponent and added or subtracted.
Decimal_exact_add(x, y) ==
    LET exp == IF x.exp < y.exp THEN x.exp ELSE y.exp
        nx == Len(x.int) + x.exp - exp
        ny == Len(y.int) + y.exp - exp
        n == IF nx < ny THEN ny ELSE nx
        sum(a, b) ==
            IF x.sign = y.sign
            THEN [sign |-> x.sign, int |-> strip_zeros(mag_add(a, b)), exp |-> exp]
            ELSE IF a = b THEN [sign |-> 0, int |-> <<0>>, exp |-> exp]
            ELSE IF mag_less(a, b)
                 THEN [sign |-> y.sign, int |-> strip_zeros(mag_sub(b, a)), exp |-> exp]
            ELSE [sign |-> x.sign, int |-> strip_zeros(mag_sub(a, b)), exp |-> exp]
        with_b(a) == LET with_a(b) == sum(a, b)
                     IN  Bind(aligned(y.int, y.exp - exp, n), with_a)
    IN  Bind(aligned(x.int, x.exp - exp, n), with_b)

\* Context rounding: a coefficient of more than 28 digits is cut to 28, half
\* to even.
Decimal_fix(x) ==
    IF Len(x.int) <= 28 THEN x
    ELSE LET kept == SubSeq(x.int, 1, 28)
             rest == SubSeq(x.int, 29, Len(x.int))
             above_half == \/ rest[1] > 5
                           \/ rest[1] = 5 /\ \E i \in 2..Len(rest) : rest[i] # 0
             half == rest[1] = 5 /\ \A i \in 2..Len(rest) : rest[i] = 0
             up == above_half \/ (half /\ kept[28] % 2 = 1)
             raised == mag_add(kept, Rep(0, 27) \o <<1>>)
         IN  IF ~up THEN [x EXCEPT !.int = kept, !.exp = x.exp + Len(rest)]
             ELSE IF raised[1] = 0
                  THEN [x EXCEPT !.int = SubSeq(raised, 2, 29), !.exp = x.exp + Len(rest)]
             ELSE [x EXCEPT !.int = SubSeq(raised, 1, 28), !.exp = x.exp + Len(rest) + 1]

\* Decimal.__add__ and Decimal.__sub__.
Decimal_add(x, y) == Bind(Decimal_exact_add(x, y), Decimal_fix)

Decimal_sub(x, y) == Decimal_add(x, [y EXCEPT !.sign = 1 - y.sign])

\* Decimal.__lt__.
Decimal_lt(x, y) ==
    LET below(difference) == difference.sign = 1 /\ difference.int # <<0>>
    IN  Bind(Decimal_exact_add(x, [y EXCEPT !.sign = 1 - y.sign]), below)

\* Decimal(text): white space around and underscores taken out, an optional
\* sign, digits with at most one point, an optional exponent;
\* InvalidOperation for any other text.
Decimal(text) ==
    LET NotUnderscore(c) == c # "_"
        parse(s) ==
            LET signed == s # <<>> /\ s[1] \in {"-", "+"}
                body == IF signed THEN Tail(s) ELSE s
                marks == {i \in 1..Len(body) : body[i] \in {"e", "E"}}
                mark == IF marks = {} THEN Len(body) + 1
                        ELSE CHOOSE i \in marks : \A j \in marks : i <= j
                mantissa == SubSeq(body, 1, mark - 1)
                exponent == SubSeq(body, mark + 1, Len(body))
                exp_signed == exponent # <<>> /\ exponent[1] \in {"-", "+"}
                exp_digits == IF exp_signed THEN Tail(exponent) ELSE exponent
                points == {i \in 1..Len(mantissa) : mantissa[i] = "."}
                point == IF points = {} THEN Len(mantissa) + 1 ELSE CHOOSE i \in points : TRUE
                intpart == SubSeq(mantissa, 1, point - 1)
                fracpart == SubSeq(mantissa, point + 1, Len(mantissa))
                digits == intpart \o fracpart
                well_formed ==
                    /\ Cardinality(points) <= 1
                    /\ digits # <<>>
                    /\ \A i \in 1..Len(digits) : IsDigit(digits[i])
                    /\ marks # {} => /\ exp_digits # <<>>
                                     /\ \A i \in 1..Len(exp_digits) : IsDigit(exp_digits[i])
                exp_value == IF marks = {} THEN 0
                             ELSE IF exp_signed /\ exponent[1] = "-"
                                  THEN -digits_value(exp_digits, 1, 0).value
                             ELSE digits_value(exp_digits, 1, 0).value
            IN  IF ~well_formed THEN Raise("InvalidOperation")
                ELSE Return([sign |-> IF signed /\ s[1] = "-" THEN 1 ELSE 0,
                             int |-> strip_zeros([i \in 1..Len(digits) |-> DigitVal(digits[i])]),
                             exp |-> exp_value - Len(fracpart)])
    IN  Bind(SelectSeq(rstrip(lstrip(text)), NotUnderscore), parse)

\* str(Decimal): plain notation while the exponent is at most 0 and the number
\* has fewer than six zeros after the point before its first digit, scientific
\* notation otherwise.
Decimal_str(x) ==
    LET chars == [i \in 1..Len(x.int) |-> DecDigits[x.int[i] + 1]]
        leftdigits == x.exp + Len(x.int)
        dotplace == IF x.exp <= 0 /\ leftdigits > -6 THEN leftdigits ELSE 1
        intpart == IF dotplace <= 0 THEN <<"0">>
                   ELSE IF dotplace >= Len(chars) THEN chars \o Rep("0", dotplace - Len(chars))
                   ELSE SubSeq(chars, 1, dotplace)
        fracpart == IF dotplace <= 0 THEN <<".">> \o Rep("0", -dotplace) \o chars
                    ELSE IF dotplace >= Len(chars) THEN <<>>
                    ELSE <<".">> \o SubSeq(chars, dotplace + 1, Len(chars))
        exponent == IF leftdigits = dotplace THEN <<>>
                    ELSE <<"E">> \o (IF leftdigits - dotplace >= 0 THEN <<"+">> ELSE <<>>)
                         \o int_str(leftdigits - dotplace)
    IN  (IF x.sign = 1 THEN <<"-">> ELSE <<>>) \o intpart \o fracpart \o exponent

(***************************************************************************)
(* accounts/app/main.py: the handlers of the accounts service.  A handler  *)
(* is a coroutine without an await, so the event loop runs each request    *)
(* from its first statement to its answer before it starts another.  The   *)
(* created_at stamps, which no handler reads, are left out of the stored   *)
(* records.                                                                *)
(***************************************************************************)
MaxUsers == 2

MaxTransactions == 2

\* What the requests carry.
PhoneArgs == {"9999999999", "1234567890"}

PasswordArgs == {"testpass123", "testpass456"}

UserCreate(phone_number, password) ==
    [phone_number |-> phone_number, password |-> password, date_of_birth |-> None]

AmountArgs ==
    { <<"2", ".", "5", "0">>, <<"-", "5">>, <<"1", "E", "-", "3", "0">>,
      <<"a", "b", "c">> }

\* An id that was never issued.
UnknownId == 0

TransactionRequest(sender_id, receiver_id, amount) ==
    [sender_id |-> sender_id, receiver_id |-> receiver_id, amount |-> amount]

\* str(uuid.uuid4()): an id that no stored user, account or transaction has.
Issued == DOMAIN users \cup DOMAIN accounts \cup DOMAIN transactions

uuid4(used) ==
    CHOOSE n \in 1..(Cardinality(used) + 1) :
        n \notin used /\ \A m \in 1..(n - 1) : m \in used

Stores == [users |-> users, accounts |-> accounts, transactions |-> transactions]

phone_number_exists_same_password(stored, user) ==
    \E user_id \in DOMAIN stored :
        /\ stored[user_id].phone_number = user.phone_number
        /\ stored[user_id].password = user.password

\* The loop over users.values() of create_user.
phone_number_exists(stored, user) ==
    \E user_id \in DOMAIN stored : stored[user_id].phone_number = user.phone_number

\* POST /users.
CreateUser(user) ==
    /\ phone_number_exists(users, user) \/ Cardinality(DOMAIN users) < MaxUsers
    /\ \E user_id \in {uuid4(Issued)} :
       \E account_id \in {uuid4(Issued \cup {user_id})} :
          IF phone_number_exists(users, user)
          THEN /\ response' = [op |-> "create_user", request |-> user,
                               status_code |-> 400,
                               detail |-> "Phone number already exists",
                               body |-> None, before |-> Stores]
               /\ UNCHANGED <<users, accounts, transactions>>
          ELSE /\ users' = (user_id :> [phone_number |-> user.phone_number,
                                        password |-> user.password,
                                        date_of_birth |-> user.date_of_birth,
                                        is_active |-> TRUE,
                                        is_admin |-> FALSE]) @@ users
               /\ accounts' = (account_id :> [user_id |-> user_id,
                                              balance |-> <<"0", ".", "0", "0">>])
                              @@ accounts
               /\ response' = [op |-> "create_user", request |-> user,
                               status_code |-> 200, detail |-> "-",
                               body |-> Some([user_id |-> user_id,
                                              phone_number |-> user.phone_number,
                                              date_of_birth |-> user.date_of_birth,
                                              is_active |-> TRUE,
                                              is_admin |-> FALSE]),
                               before |-> Stores]
               /\ UNCHANGED transactions
    /\ UNCHANGED <<wallets, params, sends, running, last, resume_service, chat_service>>

\* The balances create_transaction leaves for an amount the sender's balance
\* covers: the sender's is written first and the receiver's is read after it.
transfer(stored, sender_id, receiver_id, amount) ==
    LET debited == [stored EXCEPT ![sender_id].balance =
                        Decimal_str(Decimal_sub(Decimal(@).value, amount))]
    IN  [debited EXCEPT ![receiver_id].balance =
            Decimal_str(Decimal_add(Decimal(@).value, amount))]

\* POST /transactions.
CreateTransaction(transaction) ==
    /\ Cardinality(DOMAIN transactions) < MaxTransactions
    /\ IF transaction.sender_id \notin DOMAIN accounts
       THEN /\ response' = [op |-> "create_transaction", request |-> transaction,
                            status_code |-> 404,
                            detail |-> "Sender account not found",
                            body |-> None, before |-> Stores]
            /\ UNCHANGED <<users, accounts, transactions>>
       ELSE IF transaction.receiver_id \notin DOMAIN accounts
       THEN /\ response' = [op |-> "create_transaction", request |-> transaction,
                            status_code |-> 404,
                            detail |-> "Receiver account not found",
                            body |-> None, before |-> Stores]
            /\ UNCHANGED <<users, accounts, transactions>>
       ELSE \E amount \in {Decimal(transaction.amount)} :
            IF amount.raised # "none"
            THEN /\ response' = [op |-> "create_transaction",
                                 request |-> transaction, status_code |-> 500,
                                 detail |-> "Internal Server Error",
                                 body |-> None, before |-> Stores]
                 /\ UNCHANGED <<users, accounts, transactions>>
            ELSE \E sender_balance \in
                        {Decimal(accounts[transaction.sender_id].balance).value} :
                 \E status \in {IF Decimal_lt(sender_balance, amount.value)
                                THEN "FAILED" ELSE "SUCCESS"} :
                 \E transaction_id \in {uuid4(Issued)} :
                    /\ accounts' = IF status = "FAILED" THEN accounts
                                   ELSE transfer(accounts, transaction.sender_id,
                                                 transaction.receiver_id, amount.value)
                    /\ transactions' =
                            (transaction_id :> [sender_id |-> transaction.sender_id,
                                                receiver_id |-> transaction.receiver_id,
                                                amount |-> transaction.amount,
                                                status |-> status]) @@ transactions
                    /\ response' = [op |-> "create_transaction",
                                    request |-> transaction, status_code |-> 200,
                                    detail |-> "-",
                                    body |-> Some([transaction_id |-> transaction_id,
                                                   sender_id |-> transaction.sender_id,
                                                   receiver_id |-> transaction.receiver_id,
                                                   amount |-> transaction.amount,
                                                   status |-> status]),
                                    before |-> Stores]
                    /\ UNCHANGED users
    /\ UNCHANGED <<wallets, params, sends, running, last, resume_service, chat_service>>

NextAccounts ==
    \/ \E phone_number \in PhoneArgs, password \in PasswordArgs :
            CreateUser(UserCreate(phone_number, password))
    \/ \E sender_id \in DOMAIN accounts \cup {UnknownId},
          receiver_id \in DOMAIN accounts \cup {UnknownId}, amount \in AmountArgs :
            CreateTransaction(TransactionRequest(sender_id, receiver_id, amount))

SpecAccounts == Init /\ [][NextAccounts]_vars

(***************************************************************************)
(* microservices/resume/app/main.py: the resume service.  Its handlers are *)
(* coroutines without an await, so each request runs from start to end     *)
(* with no other request in between.  The created_at and updated_at        *)
(* timestamps are left out: no handler reads them.                         *)
(***************************************************************************)

\* The number of POST /resumes requests the service is sent: each one draws a
\* uuid4, whether it stores a resume or not.
MaxResumes == 3

ResumeUserIds == {"user-456", "user-222"}

\* class ResumeCreate: the requests the service is sent (experience and
\* education are never given).
ResumeCreate ==
    [user_id : ResumeUserIds,
     title : {"Data Scientist", "Backend Developer"},
     summary : {None},
     skills : {None, Some(<<"Python">>)},
     experience : {None},
     education : {None}]

\* class ResumeUpdate: it has no user_id field.
ResumeUpdate ==
    [title : {None, Some("Senior Frontend Developer")},
     summary : {None, Some("Experienced developer")},
     skills : {None},
     experience : {None},
     education : {None}]

user_has_resume_with_title(stored, resume) ==
    \E existing \in DOMAIN stored :
        /\ stored[existing].user_id = resume.user_id
        /\ stored[existing].title = resume.title

\* The loop of create_resume over resumes.values().
user_has_resume(stored, resume) ==
    \E existing \in DOMAIN stored : stored[existing].user_id = resume.user_id

\* POST /resumes.
CreateResume(resume) ==
    /\ Cardinality(uuids) < MaxResumes
    /\ \E resume_id \in {uuid4(uuids)} :
          /\ uuids' = uuids \cup {resume_id}
          /\ IF user_has_resume(resumes, resume)
             THEN /\ resume_response' =
                        [op |-> "create_resume", request |-> resume,
                         resume_id |-> resume_id, status_code |-> 400,
                         detail |-> "User already has a resume. Use PUT to update.",
                         body |-> None, before |-> resumes]
                  /\ UNCHANGED resumes
             ELSE \E stored \in {[user_id |-> resume.user_id,
                                  title |-> resume.title,
                                  summary |-> resume.summary,
                                  skills |-> IF resume.skills = None
                                             THEN <<>> ELSE resume.skills[1],
                                  experience |-> resume.experience,
                                  education |-> resume.education]} :
                  /\ resumes' = (resume_id :> stored) @@ resumes
                  /\ resume_response' =
                        [op |-> "create_resume", request |-> resume,
                         resume_id |-> resume_id, status_code |-> 200,
                         detail |-> "-", body |-> Some(stored),
                         before |-> resumes]
    /\ UNCHANGED <<wallets, params, sends, running, last, users, accounts,
                   transactions, response, chat_service>>

\* GET /resumes/{resume_id}.
GetResume(resume_id) ==
    /\ resume_response' =
          IF resume_id \notin DOMAIN resumes
          THEN [op |-> "get_resume", request |-> None, resume_id |-> resume_id,
                status_code |-> 404, detail |-> "Resume not found",
                body |-> None, before |-> resumes]
          ELSE [op |-> "get_resume", request |-> None, resume_id |-> resume_id,
                status_code |-> 200, detail |-> "-",
                body |-> Some(resumes[resume_id]), before |-> resumes]
    /\ UNCHANGED <<wallets, params, sends, running, last, users, accounts,
                   transactions, response, resumes, uuids, chat_service>>

\* PUT /resumes/{resume_id}: only the fields the request gives are written.
UpdateResume(resume_id, resume_update) ==
    /\ IF resume_id \notin DOMAIN resumes
       THEN /\ resume_response' =
                  [op |-> "update_resume", request |-> resume_update,
                   resume_id |-> resume_id, status_code |-> 404,
                   detail |-> "Resume not found", body |-> None,
                   before |-> resumes]
            /\ UNCHANGED resumes
       ELSE \E resume \in {[resumes[resume_id] EXCEPT
                    !.title = IF resume_update.title # None
                              THEN resume_update.title[1] ELSE @,
                    !.summary = IF resume_update.summary # None
                                THEN resume_update.summary ELSE @,
                    !.skills = IF resume_update.skills # None
                               THEN resume_update.skills[1] ELSE @,
                    !.experience = IF resume_update.experience # None
                                   THEN resume_update.experience ELSE @,
                    !.education = IF resume_update.education # None
                                  THEN resume_update.education ELSE @]} :
            /\ resumes' = [resumes EXCEPT ![resume_id] = resume]
            /\ resume_response' =
                  [op |-> "update_resume", request |-> resume_update,
                   resume_id |-> resume_id, status_code |-> 200,
                   detail |-> "-", body |-> Some(resume), before |-> resumes]
    /\ UNCHANGED <<wallets, params, sends, running, last, users, accounts,
                   transactions, response, uuids, chat_service>>

\* DELETE /resumes/{resume_id}.
DeleteResume(resume_id) ==
    /\ IF resume_id \notin DOMAIN resumes
       THEN /\ resume_response' =
                  [op |-> "delete_resume", request |-> None,
                   resume_id |-> resume_id, status_code |-> 404,
                   detail |-> "Resume not found", body |-> None,
                   before |-> resumes]
            /\ UNCHANGED resumes
       ELSE /\ resumes' = [id \in DOMAIN resumes \ {resume_id} |-> resumes[id]]
            /\ resume_response' =
                  [op |-> "delete_resume", request |-> None,
                   resume_id |-> resume_id, status_code |-> 200,
                   detail |-> "-",
                   body |-> Some([message |-> "Resume deleted successfully"]),
                   before |-> resumes]
    /\ UNCHANGED <<wallets, params, sends, running, last, users, accounts,
                   transactions, response, uuids, chat_service>>

\* The ids a client asks for: the ones the service has handed out or drawn,
\* and one it never drew.
ResumeIdArgs == uuids \cup {UnknownId}

NextResume ==
    \/ \E resume \in ResumeCreate : CreateResume(resume)
    \/ \E resume_id \in ResumeIdArgs : GetResume(resume_id)
    \/ \E resume_id \in ResumeIdArgs, resume_update \in ResumeUpdate :
            UpdateResume(resume_id, resume_update)
    \/ \E resume_id \in ResumeIdArgs : DeleteResume(resume_id)

SpecResume == Init /\ [][NextResume]_vars

(***************************************************************************)
(* microservices/chat/app/main.py: the chat service.  Every websocket has  *)
(* its own websocket_endpoint coroutine; the coroutines share the          *)
(* ConnectionManager and run on one event loop, so one runs from an await  *)
(* to its next await before another may run.  The awaits are accept (line  *)
(* 22), receive_text (line 76) and send_json (line 40).                    *)
(*                                                                         *)
(* active_connections[room] is [list, connections]: connections is the     *)
(* Python list and list names the list object (by the websocket whose      *)
(* connect created it), because broadcast's for loop keeps iterating the   *)
(* list object it started on after disconnect has deleted the room's key   *)
(* and a later connect has put a new list under it.                        *)
(***************************************************************************)

\* The texts one client sends.
MaxTexts == 1

RoomNames == {"test-room", "lobby"}

ObjectText == "{\"message\": \"Hello, World!\", \"phone_number\": \"1234567890\"}"

\* What clients send: a JSON object without the avatar key, and a text that
\* is not JSON.
DataArgs == {ObjectText, "Hello, World!"}

\* json.loads on the texts of DataArgs.
json_loads(data) ==
    IF data = ObjectText
    THEN Return([message |-> "Hello, World!", phone_number |-> "1234567890"])
    ELSE Raise("JSONDecodeError")

\* dict.get(key, "").
get(message_data, key) ==
    IF key \in DOMAIN message_data THEN message_data[key] ELSE ""

\* list.remove: the list without the first occurrence of the websocket.
remove(connections, websocket) ==
    LET first == CHOOSE i \in 1..Len(connections) :
                    /\ connections[i] = websocket
                    /\ \A j \in 1..(i - 1) : connections[j] # websocket
    IN  [i \in 1..(Len(connections) - 1) |->
            IF i < first THEN connections[i] ELSE connections[i + 1]]

\* ConnectionManager.connect after accept has returned.
connect(active, websocket, room_name) ==
    IF room_name \notin DOMAIN active
    THEN (room_name :> [list |-> websocket, connections |-> <<websocket>>]) @@ active
    ELSE [active EXCEPT ![room_name].connections = Append(@, websocket)]

\* ConnectionManager.disconnect: value is active_connections as the call
\* leaves it; list.remove raises ValueError for a websocket not in the list.
disconnect(active, websocket, room_name) ==
    IF room_name \notin DOMAIN active
    THEN [raised |-> "none", value |-> active]
    ELSE IF \A i \in 1..Len(active[room_name].connections) :
                active[room_name].connections[i] # websocket
    THEN [raised |-> "ValueError", value |-> active]
    ELSE IF Len(active[room_name].connections) = 1
    THEN [raised |-> "none",
          value |-> [r \in DOMAIN active \ {room_name} |-> active[r]]]
    ELSE [raised |-> "none",
          value |-> [active EXCEPT ![room_name].connections = remove(@, websocket)]]

\* Lines 45-46: broadcast's cleanup loop, which the first exception ends.
RECURSIVE cleanup(_, _, _)
cleanup(active, disconnected, room_name) ==
    IF disconnected = <<>>
    THEN [raised |-> "none", value |-> active]
    ELSE LET r == disconnect(active, Head(disconnected), room_name)
         IN  IF r.raised # "none" THEN r
             ELSE cleanup(r.value, Tail(disconnected), room_name)

\* Lines 88-92: the except clauses of websocket_endpoint, entered with an
\* exception of the given kind; the frame and active_connections they leave.
endpoint_except(frame, active, websocket, kind) ==
    LET r == disconnect(active, websocket, frame.room_name)
        printed == IF kind = "WebSocketDisconnect" THEN frame.printed ELSE kind
    IN  [frame |-> [frame EXCEPT !.printed = printed,
                                 !.pc = IF r.raised = "none" THEN "returned" ELSE "raised",
                                 !.raised = r.raised],
         active |-> r.value]

\* The list broadcast's iterator reads: the list object it started on, which
\* is empty once its key was deleted.
iterated(active, frame) ==
    IF /\ frame.room_name \in DOMAIN active
       /\ active[frame.room_name].list = frame.list
    THEN active[frame.room_name].connections
    ELSE <<>>

\* The server closes the connection of an endpoint that has returned or
\* raised.
ended(sockets, websocket, frame) ==
    IF frame.pc \in {"returned", "raised"}
    THEN [sockets EXCEPT ![websocket].state = "closed"]
    ELSE sockets

\* A client opens /ws/{room_name}: the endpoint is called and waits in accept.
WebSocketConnect(websocket, room_name) ==
    /\ handlers[websocket].pc = "none"
    /\ handlers' = [handlers EXCEPT ![websocket].pc = "accept",
                                    ![websocket].room_name = room_name]
    /\ UNCHANGED <<wallets, params, sends, running, last, users, accounts,
                   transactions, response, resume_service, active_connections,
                   websockets>>

\* Lines 22-25 and 72-76: accept returns, connect registers the websocket and
\* the endpoint waits in receive_text.
Accept(websocket) ==
    /\ handlers[websocket].pc = "accept"
    /\ websockets' = [websockets EXCEPT ![websocket].state = "open"]
    /\ active_connections' =
            connect(active_connections, websocket, handlers[websocket].room_name)
    /\ handlers' = [handlers EXCEPT ![websocket].pc = "receive"]
    /\ UNCHANGED <<wallets, params, sends, running, last, users, accounts,
                   transactions, response, resume_service>>

\* The texts the clients have sent so far.
texts_sent(sockets) ==
    LET RECURSIVE sum(_)
        sum(S) == IF S = {} THEN 0
                  ELSE LET w == CHOOSE w \in S : TRUE
                       IN  Len(sockets[w].outgoing) + sum(S \ {w})
    IN  sum(WebSockets)

\* The client sends a text.
ClientSend(websocket, data) ==
    /\ websockets[websocket].state = "open"
    /\ texts_sent(websockets) < MaxTexts
    /\ websockets' = [websockets EXCEPT ![websocket].outgoing = Append(@, data)]
    /\ UNCHANGED <<wallets, params, sends, running, last, users, accounts,
                   transactions, response, resume_service, active_connections,
                   handlers>>

\* The client closes its connection.
ClientClose(websocket) ==
    /\ websockets[websocket].state = "open"
    /\ websockets' = [websockets EXCEPT ![websocket].state = "closed"]
    /\ UNCHANGED <<wallets, params, sends, running, last, users, accounts,
                   transactions, response, resume_service, active_connections,
                   handlers>>

\* Lines 76-92 up to the next await: receive_text returns the next text, or
\* raises WebSocketDisconnect when the client has closed and no text is left;
\* json.loads; broadcast up to its first send_json.
ReceiveText(websocket) ==
    LET frame == handlers[websocket]
        client == websockets[websocket]
    IN  /\ frame.pc = "receive"
        /\ frame.read < Len(client.outgoing) \/ client.state = "closed"
        /\ IF frame.read < Len(client.outgoing)
           THEN \E message_data \in {json_loads(client.outgoing[frame.read + 1])} :
                \E read \in {[frame EXCEPT !.read = @ + 1]} :
                  IF message_data.raised # "none"
                  THEN \E left \in {endpoint_except(read, active_connections,
                                                    websocket, message_data.raised)} :
                          /\ handlers' = [handlers EXCEPT ![websocket] = left.frame]
                          /\ active_connections' = left.active
                  ELSE \E message \in {[message |-> get(message_data.value, "message"),
                                        phone_number |-> get(message_data.value, "phone_number"),
                                        avatar |-> get(message_data.value, "avatar")]} :
                       /\ UNCHANGED active_connections
                       /\ IF frame.room_name \notin DOMAIN active_connections
                          THEN handlers' = [handlers EXCEPT ![websocket] =
                                    [read EXCEPT !.message = message,
                                                 !.disconnected = <<>>,
                                                 !.snapshot = {},
                                                 !.delivered = {}]]
                          ELSE \E room \in {active_connections[frame.room_name]} :
                               handlers' = [handlers EXCEPT ![websocket] =
                                    [read EXCEPT !.pc = "send_json",
                                                 !.message = message,
                                                 !.list = room.list,
                                                 !.index = 1,
                                                 !.connection = room.connections[1],
                                                 !.disconnected = <<>>,
                                                 !.snapshot = {room.connections[i] :
                                                        i \in 1..Len(room.connections)},
                                                 !.delivered = {}]]
           ELSE \E left \in {endpoint_except(frame, active_connections, websocket,
                                             "WebSocketDisconnect")} :
                   /\ handlers' = [handlers EXCEPT ![websocket] = left.frame]
                   /\ active_connections' = left.active
        /\ websockets' = ended(websockets, websocket, handlers'[websocket])
        /\ UNCHANGED <<wallets, params, sends, running, last, users, accounts,
                       transactions, response, resume_service>>

\* Lines 38-46 and 88-92 from one send_json to the next await: the awaited
\* send_json returns, or raises because the client has closed; the for loop
\* takes the next connection of the list, or ends, and then the cleanup loop
\* runs and the endpoint goes back to receive_text.
SendJson(websocket) ==
    LET frame == handlers[websocket]
        connection == frame.connection
        sent == websockets[connection].state = "open"
    IN  /\ frame.pc = "send_json"
        /\ \E after \in {[frame EXCEPT
                    !.delivered = IF sent THEN @ \cup {connection} ELSE @,
                    !.disconnected = IF sent THEN @ ELSE Append(@, connection)]} :
           \E list \in {iterated(active_connections, frame)} :
              IF frame.index + 1 <= Len(list)
              THEN /\ handlers' = [handlers EXCEPT ![websocket] =
                            [after EXCEPT !.index = @ + 1,
                                          !.connection = list[frame.index + 1]]]
                   /\ UNCHANGED active_connections
              ELSE \E cleaned \in {cleanup(active_connections, after.disconnected,
                                           frame.room_name)} :
                   IF cleaned.raised = "none"
                   THEN /\ handlers' = [handlers EXCEPT ![websocket] =
                                            [after EXCEPT !.pc = "receive"]]
                        /\ active_connections' = cleaned.value
                   ELSE \E left \in {endpoint_except(after, cleaned.value, websocket,
                                                     cleaned.raised)} :
                        /\ handlers' = [handlers EXCEPT ![websocket] = left.frame]
                        /\ active_connections' = left.active
        /\ websockets' =
                ended(IF sent
                      THEN [websockets EXCEPT ![connection].received =
                                                    Append(@, frame.message)]
                      ELSE websockets,
                      websocket, handlers'[websocket])
        /\ UNCHANGED <<wallets, params, sends, running, last, users, accounts,
                       transactions, response, resume_service>>

NextChat ==
    \/ \E websocket \in WebSockets, room_name \in RoomNames :
            WebSocketConnect(websocket, room_name)
    \/ \E websocket \in WebSockets : Accept(websocket)
    \/ \E websocket \in WebSockets, data \in DataArgs : ClientSend(websocket, data)
    \/ \E websocket \in WebSockets : ClientClose(websocket)
    \/ \E websocket \in WebSockets : ReceiveText(websocket)
    \/ \E websocket \in WebSockets : SendJson(websocket)

SpecChat == Init /\ [][NextChat]_vars

(***************************************************************************)
(* The properties checked, claim by claim.                                 *)
(***************************************************************************)
\* C1: a send called on a wallet without a key pair is over in the step that
\* calls it: it has raised SignatureError, it has asked the ledger nothing and
\* broadcast nothing, and the wallets, wallet.seqno with them, are as they
\* were; no later step adds a query or a broadcast to it.
C1_SendWithoutKeyPairFailsFirst ==
    [][\A c \in SendIds :
         (sends'[c].pc # "idle" /\ wallets'[sends'[c].wallet].key_pair = None)
         => /\ sends'[c].pc = "raised"
            /\ sends'[c].outcome = Some(Raise("SignatureError"))
            /\ sends'[c].queries = 0
            /\ sends'[c].broadcasts = 0
            /\ sends'[c].current_seqno = None
            /\ sends[c].pc = "idle" => wallets' = wallets]_vars

\* A send on the key-less wallet has raised, the wallet holding a seqno the
\* caller had set.
C1_Witness ==
    \E c \in SendIds :
        /\ sends[c].pc = "raised"
        /\ wallets[sends[c].wallet].key_pair = None
        /\ sends[c].outcome = Some(Raise("SignatureError"))
        /\ sends[c].seqno_before # Some(0)
        /\ sends[c].seqno_before = Some(wallets[sends[c].wallet].seqno)

\* C2: the locals of a send on a signing wallet come in the order query,
\* assignment, message, hash, signature: the seqno is fetched by one query;
\* from the assignment to the return the wallet holds the fetched seqno; the
\* message carries the fetched seqno; the hash is the hash of that message;
\* a signature is there only once the hash is, and is 64 bytes; a send that
\* has returned has a message and its hash.
C2_SendStepsInOrder ==
    \A c \in SendIds :
        /\ sends[c].current_seqno # None => sends[c].queries = 1
        /\ sends[c].pc \in {"build", "hash", "sign", "result"}
           => /\ sends[c].current_seqno # None
              /\ wallets[sends[c].wallet].seqno = sends[c].current_seqno[1]
        /\ sends[c].message # None
           => /\ sends[c].current_seqno # None
              /\ sends[c].message[1].seqno = sends[c].current_seqno[1]
        /\ sends[c].msg_hash # None
           => /\ sends[c].message # None
              /\ hash(sends[c].message[1]).raised = "none"
              /\ hash(sends[c].message[1]).value = sends[c].msg_hash[1]
        /\ sends[c].signature # None
           => /\ sends[c].msg_hash # None
              /\ Len(sends[c].signature[1]) = 64
        /\ sends[c].pc = "result" => sends[c].signature # None
        /\ sends[c].pc = "returned" => sends[c].msg_hash # None

\* A send has returned whose message carries the fetched seqno, the wallet
\* having held another seqno when send was called.
C2_Witness ==
    \E c \in SendIds :
        /\ sends[c].pc = "returned"
        /\ sends[c].seqno_before # sends[c].current_seqno
        /\ sends[c].message[1].seqno = sends[c].current_seqno[1]

\* C3: of two sends on one wallet where the second asked the ledger while the
\* first was still waiting for its answer, both were answered the same seqno,
\* and the messages they build carry the same seqno: nothing keeps the
\* second send back until the first is through.
C3_OverlappingSendsShareSeqno ==
    \A c, d \in SendIds :
        (c \in sends[d].overlapped /\ sends[c].wallet = sends[d].wallet)
        => /\ sends[c].current_seqno # None
           /\ sends[d].current_seqno # None
              => sends[c].current_seqno = sends[d].current_seqno
           /\ (sends[c].message # None /\ sends[d].message # None)
              => sends[c].message[1].seqno = sends[d].message[1].seqno

\* Two sends on one wallet overlapped, and both have returned, each with a
\* message of the seqno both were answered.
C3_Witness ==
    \E c, d \in SendIds :
        /\ c \in sends[d].overlapped
        /\ sends[c].pc = "returned"
        /\ sends[d].pc = "returned"
        /\ sends[c].wallet = sends[d].wallet
        /\ sends[c].message # None
        /\ sends[d].message # None
        /\ sends[c].current_seqno = sends[d].current_seqno
        /\ sends[c].message[1].seqno = sends[c].current_seqno[1]
        /\ sends[d].message[1].seqno = sends[c].message[1].seqno

\* C4: of two sends on one wallet that have returned with messages of the same
\* seqno, at most one has returned a result with success true.
C4_SecondSendSameSeqnoRejected ==
    \A c, d \in SendIds :
        (/\ c # d
         /\ sends[c].wallet = sends[d].wallet
         /\ sends[c].pc = "returned" /\ sends[d].pc = "returned"
         /\ sends[c].message[1].seqno = sends[d].message[1].seqno)
        => ~(sends[c].outcome[1].value.success /\ sends[d].outcome[1].value.success)

\* C5: a send that has returned a TransactionResult has broadcast exactly once.
C5_ReturnedSendBroadcastOnce ==
    \A c \in SendIds : sends[c].pc = "returned" => sends[c].broadcasts = 1

\* C6: can_sign is true exactly of the wallets that hold a key pair, and
\* create_transfer_message and sign called on a wallet without one raise
\* SignatureError and return nothing.
C6_KeyLessWalletCannotSign ==
    /\ \A w \in WalletIds : can_sign(wallets[w]) <=> wallets[w].key_pair # None
    /\ (last.op \in {"create_transfer_message", "sign"} /\ wallets[last.wallet].key_pair = None)
       => /\ last.outcome[1].raised = "SignatureError"
          /\ last.outcome[1].value = None

\* create_transfer_message was called on the wallet without a key pair and
\* raised SignatureError.
C6_Witness ==
    /\ last.op = "create_transfer_message"
    /\ wallets[last.wallet].key_pair = None
    /\ ~can_sign(wallets[last.wallet])
    /\ last.outcome[1].raised = "SignatureError"

\* C7: sign on a wallet with a key pair raises ValueError for a hash that is
\* not 32 bytes long and returns 64 bytes for one that is; on a wallet without
\* a key pair it raises SignatureError whatever the length.
C7_SignChecksLength ==
    last.op = "sign"
    => IF wallets[last.wallet].key_pair = None
       THEN last.outcome[1].raised = "SignatureError"
       ELSE IF Len(last.message_hash) # 32
            THEN last.outcome[1].raised = "ValueError"
            ELSE /\ last.outcome[1].raised = "none"
                 /\ Len(last.outcome[1].value) = 64

\* sign on the wallet with a key pair has returned a signature for a 32-byte hash.
C7_Witness ==
    /\ last.op = "sign"
    /\ wallets[last.wallet].key_pair # None
    /\ Len(last.message_hash) = 32
    /\ last.outcome[1].raised = "none"
    /\ Len(last.outcome[1].value) = 64

\* C8: create_transfer_message on a wallet with a key pair returns a message
\* whose seqno is the wallet's and whose valid_until, send_mode, destination,
\* amount and comment are the params', and leaves the wallet's seqno and the
\* params as they were.
C8_MessageCopiesFields ==
    (last.op = "create_transfer_message" /\ wallets[last.wallet].key_pair # None)
    => /\ last.outcome[1].raised = "none"
       /\ last.outcome[1].value.seqno = last.before[1].seqno
       /\ last.outcome[1].value.valid_until = last.before[1].params.valid_until
       /\ last.outcome[1].value.send_mode = last.before[1].params.send_mode
       /\ last.outcome[1].value.destination = last.before[1].params.to
       /\ last.outcome[1].value.amount = last.before[1].params.amount
       /\ last.outcome[1].value.comment = last.before[1].params.comment
       /\ last.after = last.before

\* A message was built from a wallet and params the caller had changed: a set
\* seqno, a comment, a send mode and a valid_until of the caller's.
C8_Witness ==
    /\ last.op = "create_transfer_message"
    /\ wallets[last.wallet].key_pair # None
    /\ last.outcome[1].raised = "none"
    /\ last.outcome[1].value.seqno > 0
    /\ last.outcome[1].value.comment # None
    /\ last.outcome[1].value.send_mode # 3
    /\ last.outcome[1].value.valid_until = 0

\* C9: get_balance, get_wallet_state and get_seqno called with a text that
\* Address.from_friendly rejects raise InvalidAddressError, return nothing
\* and have asked the ledger nothing.
C9_QueriesValidateAddress ==
    (/\ last.op \in {"get_balance", "get_wallet_state", "get_seqno"}
     /\ from_friendly(last.address).raised # "none")
    => /\ last.outcome[1].raised = "InvalidAddressError"
       /\ last.outcome[1].value = None
       /\ last.outcome[1].queries = 0

\* get_seqno was called with a text that from_friendly rejects and raised.
C9_Witness ==
    /\ last.op = "get_seqno"
    /\ from_friendly(last.address).raised = "InvalidAddressError"
    /\ last.outcome[1].raised = "InvalidAddressError"
    /\ last.outcome[1].queries = 0

\* C10: deploy on a wallet without a key pair raises SignatureError having
\* asked the ledger nothing and broadcast nothing; on any other wallet it
\* returns a result having broadcast a deployment payload.
C10_DeployBroadcastsPayload ==
    last.op = "deploy"
    => IF wallets[last.wallet].key_pair = None
       THEN /\ last.outcome[1].raised = "SignatureError"
            /\ last.outcome[1].queries = 0
            /\ last.outcome[1].broadcasts = 0
       ELSE /\ last.outcome[1].raised = "none"
            /\ last.outcome[1].broadcasts = 1

\* C11: an address the caller constructed or parsed, its rendering parsed
\* again, gives an equal address; the rendering is the workchain in decimal,
\* a colon and 64 hex digits, whichever form the address was parsed from.
C11_AddressRoundTrips ==
    (last.op \in {"Address", "from_friendly"} /\ last.outcome[1].raised = "none")
    => /\ last.after[1].parsed.raised = "none"
       /\ last.after[1].parsed.value = last.outcome[1].value
       /\ last.after[1].str = last.after[1].to_hex
       /\ Len(split_colon(last.after[1].str)) = 2
       /\ int_parse(split_colon(last.after[1].str)[1])
              = Return(last.outcome[1].value.workchain)
       /\ Len(split_colon(last.after[1].str)[2]) = 64
       /\ \A i \in 1..64 : IsHexChar(split_colon(last.after[1].str)[2][i])
       /\ bytes_fromhex(split_colon(last.after[1].str)[2])
              = Return(last.outcome[1].value.raw)

\* A base64 text was parsed to an address of a negative workchain, and the
\* rendering of that address parsed back to it.
C11_Witness ==
    /\ last.op = "from_friendly"
    /\ startswith(last.address, <<"E", "f">>)
    /\ last.outcome[1].raised = "none"
    /\ last.outcome[1].value.workchain < 0
    /\ last.after[1].parsed = last.outcome[1]
    /\ startswith(last.after[1].str, <<"-">>)

\* C12: parsing raises InvalidAddressError and gives no address for a text
\* with one of the four prefixes that does not decode to exactly 36 bytes,
\* for a text without such a prefix and with a colon whose first segment
\* int() does not take or whose payload is not hex of exactly 32 bytes, and
\* for a text with neither a prefix nor a colon.
C12_ParseRejects ==
    last.op = "from_friendly"
    => LET text == last.address
           prefixed == \E prefix \in Base64Prefixes : startswith(text, prefix)
           colon == \E i \in 1..Len(text) : text[i] = ":"
           segments == split_colon(text)
           urlsafe == urlsafe_b64decode(text \o <<"=", "=">>)
           decoded == IF urlsafe.raised = "none" THEN urlsafe
                      ELSE b64decode(text \o <<"=", "=">>)
           rejected ==
               IF prefixed
               THEN decoded.raised # "none" \/ Len(decoded.value) # 36
               ELSE IF colon
               THEN \/ int_parse(segments[1]).raised # "none"
                    \/ (Len(segments) = 2 /\
                          (\/ bytes_fromhex(segments[2]).raised # "none"
                           \/ Len(bytes_fromhex(segments[2]).value) # 32))
               ELSE TRUE
       IN  rejected => /\ last.outcome[1].raised = "InvalidAddressError"
                       /\ last.outcome[1].value = None
                       /\ last.after = None

\* A prefixed text that decodes to 37 bytes was parsed and rejected.
C12_Witness ==
    /\ last.op = "from_friendly"
    /\ startswith(last.address, <<"E", "Q">>)
    /\ urlsafe_b64decode(last.address \o <<"=", "=">>).raised = "none"
    /\ Len(urlsafe_b64decode(last.address \o <<"=", "=">>).value) = 37
    /\ last.outcome[1].raised = "InvalidAddressError"

\* C13: an address the caller constructed or parsed has a workchain in
\* -128..127.
C13_WorkchainIsSignedByte ==
    (last.op \in {"Address", "from_friendly"} /\ last.outcome[1].raised = "none")
    => /\ last.outcome[1].value.workchain >= -128
       /\ last.outcome[1].value.workchain <= 127

\* C14: an address the caller constructed or parsed has a raw payload of 32
\* bytes and a friendly text that is its workchain in decimal, a colon and
\* the hex of its payload, so that str and to_hex give the same text;
\* construction with a payload of another length raises InvalidAddressError.
C14_AddressInvariant ==
    /\ (last.op \in {"Address", "from_friendly"} /\ last.outcome[1].raised = "none")
       => /\ Len(last.outcome[1].value.raw) = 32
          /\ last.outcome[1].value.friendly
                 = int_str(last.outcome[1].value.workchain) \o <<":">>
                       \o bytes_hex(last.outcome[1].value.raw)
          /\ address_str(last.outcome[1].value) = to_hex(last.outcome[1].value)
          /\ last.after[1].str = last.after[1].to_hex
    /\ (last.op = "Address" /\ Len(last.before[1].raw) # 32)
       => /\ last.outcome[1].raised = "InvalidAddressError"
          /\ last.outcome[1].value = None

\* An address was constructed with a payload of 33 bytes and the construction
\* raised.
C14_Witness ==
    /\ last.op = "Address"
    /\ Len(last.before[1].raw) = 33
    /\ last.outcome[1].raised = "InvalidAddressError"

\* C15: a message whose fields fit their width encodes to seqno in 4 bytes
\* big-endian, valid_until in 4 bytes big-endian, send_mode in 1 byte, the
\* destination workchain in 1 signed byte, the 32 raw bytes, the amount in 8
\* bytes big-endian and then the UTF-8 bytes of the comment when there is one
\* and it is not empty: 50 bytes and the comment's, 50 with no comment.
C15_EncodingLayout ==
    (/\ last.op = "to_bytes"
     /\ last.before[1].seqno >= 0 /\ last.before[1].valid_until >= 0
     /\ last.before[1].send_mode >= 0 /\ last.before[1].send_mode <= 255
     /\ last.before[1].destination.workchain >= -128 /\ last.before[1].destination.workchain <= 127
     /\ last.before[1].amount >= 0)
    => LET m == last.before[1]
           b == last.outcome[1].value
           text == IF m.comment = None THEN <<>> ELSE m.comment[1]
           u32(i) == ((b[i] * 256 + b[i + 1]) * 256 + b[i + 2]) * 256 + b[i + 3]
       IN  /\ last.outcome[1].raised = "none"
           /\ Len(b) = 50 + Len(encode_utf8(text))
           /\ m.comment = None => Len(b) = 50
           /\ u32(1) = m.seqno
           /\ u32(5) = m.valid_until
           /\ b[9] = m.send_mode
           /\ b[10] = (m.destination.workchain + 256) % 256
           /\ SubSeq(b, 11, 42) = m.destination.raw
           /\ \A i \in 43..46 : b[i] = 0
           /\ u32(47) = m.amount
           /\ SubSeq(b, 51, Len(b)) = encode_utf8(text)
           /\ \A i \in 1..Len(text) : text[i] \in {"h", "i"} => b[50 + i] = CodePoint(text[i])
           /\ text = <<"h", "é">> => SubSeq(b, 51, Len(b)) = <<104, 195, 169>>

\* A message with a comment outside ASCII, a seqno, an expiry and an amount
\* other than 0 and a negative workchain was encoded to 53 bytes.
C15_Witness ==
    /\ last.op = "to_bytes"
    /\ last.before[1].comment = Some(<<"h", "é">>)
    /\ last.before[1].seqno = 5
    /\ last.before[1].valid_until = 1700000000
    /\ last.before[1].amount = 1000000000
    /\ last.before[1].destination.workchain = -1
    /\ last.outcome[1].raised = "none"
    /\ Len(last.outcome[1].value) = 53

C17_EncodingInjective ==
    (/\ last.op = "to_bytes"
     /\ last.before[1].seqno >= 0 /\ last.before[1].valid_until >= 0
     /\ last.before[1].send_mode >= 0 /\ last.before[1].send_mode <= 255
     /\ last.before[1].destination.workchain >= -128 /\ last.before[1].destination.workchain <= 127
     /\ last.before[1].amount >= 0)
    => \A m \in Messages :
         (/\ \/ m.comment = None /\ last.before[1].comment = None
             \/ /\ m.comment \notin {None, Some(<<>>)}
                /\ last.before[1].comment \notin {None, Some(<<>>)}
          /\ m.seqno >= 0 /\ m.valid_until >= 0
          /\ m.send_mode >= 0 /\ m.send_mode <= 255
          /\ m.destination.workchain >= -128 /\ m.destination.workchain <= 127
          /\ m.amount >= 0
          /\ to_bytes(m) = last.outcome[1])
         => m = last.before[1]

\* A message with a comment of two characters was encoded, to other bytes
\* than the same message with the comment's first character only.
C17_Witness ==
    /\ last.op = "to_bytes"
    /\ last.before[1].comment = Some(<<"h", "é">>)
    /\ last.outcome[1].raised = "none"
    /\ [last.before[1] EXCEPT !.comment = Some(<<"h">>)] \in Messages
    /\ to_bytes([last.before[1] EXCEPT !.comment = Some(<<"h">>)]) # last.outcome[1]

\* C18: constructing a KeyPair gives one exactly when the secret key and the
\* public key are both 32 bytes long, and raises ValueError otherwise; the
\* repr and the str of a key pair are the same for every secret key the pair
\* could hold beside that public key, and the hex of the secret key is in
\* neither unless it is in the hex of the public key.
C18_KeyPairInvariant ==
    last.op = "KeyPair"
    => LET secret == last.before[1].secret_key
           public == last.before[1].public_key
           within(text, part) ==
               \E i \in 1..(Len(text) - Len(part) + 1) :
                   SubSeq(text, i, i + Len(part) - 1) = part
       IN  IF Len(secret) = 32 /\ Len(public) = 32
           THEN /\ last.outcome[1].raised = "none"
                /\ last.outcome[1].value.secret_key = secret
                /\ last.outcome[1].value.public_key = public
                /\ last.after[1].str = last.after[1].repr
                /\ \A other \in {k \in KeyArgs : Len(k) = 32} :
                       /\ KeyPair_repr(KeyPair(other, public).value) = last.after[1].repr
                       /\ KeyPair_str(KeyPair(other, public).value) = last.after[1].str
                /\ ~within(bytes_hex(public), bytes_hex(secret))
                   => /\ ~within(last.after[1].repr, bytes_hex(secret))
                      /\ ~within(last.after[1].str, bytes_hex(secret))
           ELSE /\ last.outcome[1].raised = "ValueError"
                /\ last.outcome[1].value = None

\* A key pair of two different 32-byte keys was constructed and rendered.
C18_Witness ==
    /\ last.op = "KeyPair"
    /\ last.outcome[1].raised = "none"
    /\ Len(last.outcome[1].value.secret_key) = 32
    /\ last.outcome[1].value.secret_key # last.outcome[1].value.public_key
    /\ last.after[1].repr = KeyPair_repr(last.outcome[1].value)
    /\ last.after[1].str = last.after[1].repr

\* C19: no two users stored by the accounts service have the same phone
\* number, and a create-user request whose phone number was registered when it
\* arrived is answered 400 and leaves the users and the accounts as they were.
C19_PhoneNumbersUnique ==
    /\ \A u \in DOMAIN users : \A v \in DOMAIN users :
            users[u].phone_number = users[v].phone_number => u = v
    /\ (/\ response.op = "create_user"
        /\ phone_number_exists(response.before.users, response.request))
       => /\ response.status_code = 400
          /\ users = response.before.users
          /\ accounts = response.before.accounts

\* A second user was stored under another phone number and then a request
\* repeating a stored phone number under another password was refused.
C19_Witness ==
    /\ response.op = "create_user"
    /\ response.status_code = 400
    /\ Cardinality(DOMAIN users) = 2
    /\ \E u \in DOMAIN users :
            /\ users[u].phone_number = response.request.phone_number
            /\ users[u].password # response.request.password

\* C20: a transaction request naming two accounts and a decimal amount is
\* recorded; with an amount above the sender's balance it is recorded FAILED and
\* every balance stays as it was; with any other amount it is recorded SUCCESS,
\* the sender's balance falls by the amount, the receiver's rises by the
\* amount, and no other balance changes.
C20_TransactionMovesAmount ==
    (/\ response.op = "create_transaction"
     /\ response.request.sender_id \in DOMAIN response.before.accounts
     /\ response.request.receiver_id \in DOMAIN response.before.accounts
     /\ response.request.sender_id # response.request.receiver_id
     /\ Decimal(response.request.amount).raised = "none")
    => LET sender_id == response.request.sender_id
           receiver_id == response.request.receiver_id
           amount == Decimal(response.request.amount).value
           negated(x) == [x EXCEPT !.sign = 1 - x.sign]
           balance(stored, id) == Decimal(stored[id].balance).value
           same(x, y) == Decimal_exact_add(x, negated(y)).int = <<0>>
           recorded(status) ==
                /\ response.status_code = 200
                /\ response.body # None
                /\ response.body[1].status = status
                /\ response.body[1].transaction_id \notin DOMAIN response.before.transactions
                /\ DOMAIN transactions =
                        DOMAIN response.before.transactions
                        \cup {response.body[1].transaction_id}
                /\ transactions[response.body[1].transaction_id] =
                        [sender_id |-> sender_id, receiver_id |-> receiver_id,
                         amount |-> response.request.amount, status |-> status]
       IN  IF Decimal_lt(balance(response.before.accounts, sender_id), amount)
           THEN /\ recorded("FAILED")
                /\ accounts = response.before.accounts
           ELSE /\ recorded("SUCCESS")
                /\ same(balance(accounts, sender_id),
                        Decimal_exact_add(balance(response.before.accounts, sender_id),
                                          negated(amount)))
                /\ same(balance(accounts, receiver_id),
                        Decimal_exact_add(balance(response.before.accounts, receiver_id),
                                          amount))
                /\ \A id \in DOMAIN accounts \ {sender_id, receiver_id} :
                        accounts[id] = response.before.accounts[id]

\* C23, as stated: a get_balance, get_wallet_state or get_seqno call has asked
\* the ledger at most once; every send that is over has asked the ledger
\* exactly once and broadcast at most once, never before its query; and a
\* call that has raised asks and broadcasts nothing more.
C23_EverySendQueriesOnce ==
    /\ last.op \in {"get_balance", "get_wallet_state", "get_seqno"}
       => last.outcome[1].queries <= 1
    /\ \A c \in SendIds :
          sends[c].pc \in {"raised", "returned"}
          => /\ sends[c].queries = 1
             /\ sends[c].broadcasts <= 1

\* C23, amended: a query call has asked the ledger at most once, and not at
\* all when it raised; a send asks the ledger exactly once when its wallet can
\* sign and not at all when it cannot, never asks again once it has been
\* answered, and broadcasts at most once and only after its query; a send that
\* has raised raised in the step that failed, and no later step changes what
\* it asked, what it broadcast or what it raised.
C23_CallsQueryAtMostOnce ==
    [][/\ last'.op \in {"get_balance", "get_wallet_state", "get_seqno"}
          => /\ last'.outcome[1].queries <= 1
             /\ last'.outcome[1].broadcasts = 0
             /\ last'.outcome[1].raised # "none" => last'.outcome[1].queries = 0
       /\ \A c \in SendIds :
            /\ sends'[c].queries <= 1
            /\ sends'[c].broadcasts <= 1
            /\ sends'[c].broadcasts > 0 => sends'[c].queries = 1
            /\ sends'[c].queries >= sends[c].queries
            /\ sends'[c].pc \in {"awaiting", "build", "hash", "sign", "result", "returned"}
               => sends'[c].queries = 1
            /\ (sends'[c].pc = "raised" /\ wallets'[sends'[c].wallet].key_pair = None)
               => sends'[c].queries = 0
            /\ (sends'[c].pc = "raised" /\ wallets'[sends'[c].wallet].key_pair # None)
               => sends'[c].queries = 1
            /\ sends'[c].pc = "raised"
               => /\ sends'[c].outcome # None
                  /\ sends'[c].outcome[1].raised # "none"
            /\ sends[c].pc = "raised" => sends'[c] = sends[c]]_vars

\* A send on the signing wallet raised after its one query, another send
\* returned after its one query, and the caller's last query call raised
\* without asking the ledger.
C23_Witness ==
    /\ \E c \in SendIds :
          /\ sends[c].pc = "raised"
          /\ sends[c].outcome[1].raised # "SignatureError"
          /\ sends[c].queries = 1
    /\ \E c \in SendIds :
          /\ sends[c].pc = "returned"
          /\ sends[c].queries = 1
    /\ last.op = "get_seqno"
    /\ last.outcome[1].raised # "none"
    /\ last.outcome[1].queries = 0

\* C24: no step changes a wallet's address or key pair; a step that changes a
\* wallet's seqno is the caller's assignment or the refresh of a send whose
\* wallet holds a key pair, and is none of the create_transfer_message, sign,
\* deploy, get_balance, get_wallet_state and get_seqno calls, which are the
\* steps that write the caller's last call; a Wallet method's outcome counts
\* no ledger query, and a step that adds a query to a send is the send's own
\* get_seqno.
C24_WalletChangesOnlyBySeqno ==
    [][/\ \A w \in WalletIds :
            /\ wallets'[w].address = wallets[w].address
            /\ wallets'[w].key_pair = wallets[w].key_pair
            /\ can_sign(wallets'[w]) = can_sign(wallets[w])
       /\ wallets' # wallets
          => \/ \E w \in WalletIds, value \in 0..MaxSeqno : SetSeqno(w, value)
             \/ \E c \in SendIds :
                    /\ SendResume(c)
                    /\ wallets[sends[c].wallet].key_pair # None
                    /\ \A w \in WalletIds \ {sends[c].wallet} : wallets'[w] = wallets[w]
       /\ wallets' # wallets => UNCHANGED last
       /\ last'.op \in {"none", "create_transfer_message", "sign", "deploy",
                         "get_balance", "get_wallet_state", "get_seqno"}
       /\ last'.op \in {"create_transfer_message", "sign"}
          => "queries" \notin DOMAIN last'.outcome[1]
       /\ (\E c \in SendIds : sends'[c].queries # sends[c].queries)
          => \E c \in SendIds : SendQuery(c)]_vars

\* The send's refresh has put 0 into the signing wallet, which held 1 when
\* send was called, and a call of every kind has been seen since with the
\* wallet still at 0: here a deploy.
C24_Witness ==
    /\ sends[1].pc = "returned"
    /\ sends[1].seqno_before = Some(1)
    /\ wallets[sends[1].wallet].seqno = 0
    /\ last.op = "deploy"
    /\ last.wallet = sends[1].wallet
    /\ last.outcome[1].raised = "none"

\* C25: a text of a base64 prefix that decodes to 36 bytes parses to the
\* address whose workchain is the second byte read as a signed number and
\* whose raw is bytes 3 to 34; every other such text with the same bytes 2 to
\* 34, whatever its first byte and its last two, parses to the same address.
C25_Base64ParseReadsBytes ==
    last.op = "from_friendly"
    => LET prefixed(text) == \E prefix \in Base64Prefixes : startswith(text, prefix)
           decoded(text) ==
               LET urlsafe == urlsafe_b64decode(text \o <<"=", "=">>)
               IN  IF urlsafe.raised = "none" THEN urlsafe
                   ELSE b64decode(text \o <<"=", "=">>)
           full(text) == /\ prefixed(text)
                         /\ decoded(text).raised = "none"
                         /\ Len(decoded(text).value) = 36
           check(bytes) ==
               /\ last.outcome[1].raised = "none"
               /\ last.outcome[1].value.workchain =
                      IF bytes[2] >= 128 THEN bytes[2] - 256 ELSE bytes[2]
               /\ last.outcome[1].value.raw = SubSeq(bytes, 3, 34)
               /\ \A other \in ParseTexts :
                      (full(other) /\ SubSeq(decoded(other).value, 2, 34) = SubSeq(bytes, 2, 34))
                      => /\ from_friendly(other).raised = "none"
                         /\ from_friendly(other).value = last.outcome[1].value
       IN  full(last.address) => Bind(decoded(last.address).value, check)

\* A text of 36 decoded bytes was parsed to an address of a negative
\* workchain, and texts with another first byte and with other last bytes
\* carry the same workchain and payload bytes.
C25_Witness ==
    /\ last.op = "from_friendly"
    /\ startswith(last.address, <<"E", "f">>)
    /\ last.outcome[1].raised = "none"
    /\ last.outcome[1].value.workchain = -16
    /\ last.address = <<"E", "f">> \o Rep("A", 46)
    /\ from_friendly(<<"E", "f">> \o Rep("A", 43) \o <<"P", "_", "/">>) = last.outcome[1]
    /\ urlsafe_b64decode(<<"k", "Q">> \o Rep("A", 46) \o <<"=", "=">>).value[1]
          # urlsafe_b64decode(<<"E", "Q">> \o Rep("A", 46) \o <<"=", "=">>).value[1]
    /\ from_friendly(<<"k", "Q">> \o Rep("A", 46)) = from_friendly(<<"E", "Q">> \o Rep("A", 46))

\* C26: the message create_transfer_message returned stays, through every
\* later assignment to wallet.seqno and every with_comment, with_send_mode and
\* with_valid_until on the params, the message of the seqno and the params'
\* values of the moment of the call, and its encoding and its hash stay those
\* of these values.
C26_MessageIsSnapshot ==
    (last.op = "create_transfer_message" /\ last.outcome[1].raised = "none")
    => LET taken == [seqno |-> last.before[1].seqno,
                     valid_until |-> last.before[1].params.valid_until,
                     send_mode |-> last.before[1].params.send_mode,
                     destination |-> last.before[1].params.to,
                     amount |-> last.before[1].params.amount,
                     comment |-> last.before[1].params.comment]
       IN  /\ last.outcome[1].value = taken
           /\ to_bytes(last.outcome[1].value) = to_bytes(taken)
           /\ hash(last.outcome[1].value) = hash(taken)

\* Since the message was returned the wallet's seqno, the params' comment,
\* send mode and valid_until have all been given other values, and the
\* message would encode otherwise if it were built now.
C26_Witness ==
    /\ last.op = "create_transfer_message"
    /\ last.outcome[1].raised = "none"
    /\ wallets[last.wallet].seqno # last.outcome[1].value.seqno
    /\ params[last.params].comment # last.outcome[1].value.comment
    /\ params[last.params].send_mode # last.outcome[1].value.send_mode
    /\ params[last.params].valid_until # last.outcome[1].value.valid_until
    /\ to_bytes(last.outcome[1].value).raised = "none"
    /\ to_bytes(create_transfer_message(wallets[last.wallet], params[last.params]).value)
          # to_bytes(last.outcome[1].value)

\* C27: once a send has put its fetched seqno into the wallet, the next step
\* of the program is that send's own message creation, with the wallets
\* untouched in between; the message it creates carries the seqno the wallet
\* holds at that step, which is the seqno this send's own query returned,
\* whatever the caller or another send did while it waited.
C27_MessageCarriesOwnSeqno ==
    [][\A c \in SendIds :
         /\ sends[c].pc = "build"
            => /\ sends'[c].pc \in {"hash", "raised"}
               /\ wallets' = wallets
               /\ wallets[sends[c].wallet].seqno = sends[c].current_seqno[1]
               /\ \A d \in SendIds \ {c} : sends'[d] = sends[d]
         /\ (sends[c].message = None /\ sends'[c].message # None)
            => /\ sends[c].pc = "build"
               /\ sends'[c].message[1].seqno = sends[c].current_seqno[1]
         /\ sends[c].message # None => sends'[c].message = sends[c].message]_vars

\* Two sends on one wallet overlapped, the caller having given the wallet
\* another seqno between the two calls; both have built their message, each
\* with the seqno its own query returned.
C27_Witness ==
    \E c, d \in SendIds :
        /\ c \in sends[d].overlapped
        /\ sends[c].wallet = sends[d].wallet
        /\ sends[c].seqno_before # sends[d].seqno_before
        /\ sends[d].seqno_before # sends[d].current_seqno
        /\ sends[c].message # None
        /\ sends[d].message # None
        /\ sends[c].message[1].seqno = sends[c].current_seqno[1]
        /\ sends[d].message[1].seqno = sends[d].current_seqno[1]

\* C28: of a message with a negative seqno, valid_until or amount, a send_mode
\* outside 0..255 or a destination workchain outside -128..127, to_bytes and
\* hash raise struct.error and give no bytes.
C28_UnfitFieldsRaise ==
    last.op = "to_bytes"
    => LET m == last.before[1]
           unfit == \/ m.seqno < 0
                    \/ m.valid_until < 0
                    \/ m.send_mode < 0 \/ m.send_mode > 255
                    \/ m.destination.workchain < -128 \/ m.destination.workchain > 127
                    \/ m.amount < 0
       IN  unfit => /\ last.outcome[1].raised = "struct.error"
                    /\ last.outcome[1].value = None
                    /\ hash(m).raised = "struct.error"
                    /\ hash(m).value = None

\* A message whose only unfit field is a seqno of -1 was encoded and raised.
C28_Witness ==
    /\ last.op = "to_bytes"
    /\ last.before[1].seqno = -1
    /\ last.before[1].valid_until >= 0
    /\ last.before[1].send_mode = 3
    /\ last.before[1].destination.workchain = 0
    /\ last.before[1].amount > 0
    /\ last.outcome[1].raised = "struct.error"

\* C29: no account of the accounts service has a balance below zero.
C29_NoNegativeBalance ==
    \A account_id \in DOMAIN accounts :
        LET balance == Decimal(accounts[account_id].balance)
        IN  /\ balance.raised = "none"
            /\ balance.value.sign = 1 => balance.value.int = <<0>>

\* C21 (resume service): after every create, update or delete request no two
\* stored resumes have the same user_id; a create request for a user who
\* already had a resume is answered 400 and leaves the store as it was; a
\* delete answered 200 removes the resume, a resume id that was drawn and is
\* not stored never becomes stored again, and a get of an id that is not
\* stored is answered 404.
C21_OneResumePerUser ==
    [][ /\ \A a \in DOMAIN resumes' : \A b \in DOMAIN resumes' :
              resumes'[a].user_id = resumes'[b].user_id => a = b
        /\ ( /\ resume_response'.op = "create_resume"
             /\ \E existing \in DOMAIN resumes :
                    resumes[existing].user_id = resume_response'.request.user_id )
           => /\ resume_response'.status_code = 400
              /\ resumes' = resumes
        /\ ( resume_response'.op = "delete_resume"
             /\ resume_response'.resume_id \in DOMAIN resumes )
           => /\ resume_response'.status_code = 200
              /\ resume_response'.resume_id \notin DOMAIN resumes'
        /\ \A resume_id \in uuids \ DOMAIN resumes :
              resume_id \notin DOMAIN resumes'
        /\ ( resume_response'.op = "get_resume"
             /\ resume_response'.resume_id \notin DOMAIN resumes )
           => resume_response'.status_code = 404
      ]_resume_service

\* A get of a deleted resume is answered 404 while the user it belonged to
\* has a resume again, under another id.
C21_Witness ==
    /\ resume_response.op = "get_resume"
    /\ resume_response.status_code = 404
    /\ resume_response.resume_id \in uuids
    /\ \E a \in DOMAIN resumes : a > resume_response.resume_id
    /\ Cardinality(uuids) = 2

\* The connections registered in a room.
Registered(room_name) ==
    IF room_name \in DOMAIN active_connections
    THEN {active_connections[room_name].connections[i] :
            i \in 1..Len(active_connections[room_name].connections)}
    ELSE {}

\* C22 (chat service): once the broadcast of a client's message is over, the
\* message has been sent to every connection that was registered in the
\* sender's room when the broadcast began, is still registered in it and
\* whose client is still connected, the sender's own connection included;
\* and a message is only ever received by a connection of the room of the
\* endpoint that is broadcasting it.
C22_BroadcastReachesRoom ==
    /\ \A websocket \in WebSockets :
          handlers[websocket].pc # "send_json" =>
              \A connection \in handlers[websocket].snapshot
                                    \cap Registered(handlers[websocket].room_name) :
                  websockets[connection].state = "open" =>
                      connection \in handlers[websocket].delivered
    /\ \A websocket \in WebSockets :
          \A connection \in handlers[websocket].delivered :
              handlers[connection].room_name = handlers[websocket].room_name

\* C30 (chat service): no call of ConnectionManager.disconnect raises: no
\* endpoint is left by an exception out of its own disconnect call, and none
\* reports an exception out of broadcast's cleanup.
C30_DisconnectNeverFails ==
    \A websocket \in WebSockets :
        /\ handlers[websocket].raised = "none"
        /\ handlers[websocket].printed # "ValueError"

=========================================================================
